---------------------------- MODULE Spec2Model ----------------------------
(***************************************************************************)
(* Verification model of the GravityKit documentation pipeline.            *)
(*                                                                         *)
(*   Part I  : the directory matcher of the hooks regeneration script      *)
(*             (normalize_slug, score_candidate, find_best_plugin_dir and  *)
(*             the product loop of main that calls them).                  *)
(*   Part II : the repository synchronizer (clone/update script): main,    *)
(*             processProductsInParallel, processProduct, cloneRepo,       *)
(*             updateRepo, deleteDir, getCloneUrl.                         *)
(*   Part III: the hooks regenerator (generate script): main,              *)
(*             checkWpHooksDocumentor, generateHooksDocs.                  *)
(*   Part IV : the enrichment pass (scripts/enhance-for-llms.mjs):         *)
(*             parseHookFile, generateDescription, extractExample,         *)
(*             collectAllHooks, enhanceHookFile, enhanceAllHooks, main.    *)
(*   Part V  : the synchronizer's command line: parseArgs and the batch    *)
(*             loop of processProductsInParallel for any parallelism.      *)
(*   Part VI : category placement: getProductOutputDir,                    *)
(*             generateCategoryStructure, generateMainIndex's links and    *)
(*             the product directory collectAllHooks reads.                *)
(*   Part VII: the category index generator                                *)
(*             (scripts/generate-category-indexes.mjs).                    *)
(*                                                                         *)
(* Strings of the program are sequences of one-character strings, so that  *)
(* lower-casing, character stripping, splitting and substring search are   *)
(* computed the way the JavaScript computes them.                          *)
(***************************************************************************)
EXTENDS Integers, Sequences, FiniteSets, TLC

VARIABLES
    \* ---- Part I: directory matcher ----
    plugin_dirs,     \* list_plugin_dirs(): directory names found on disk
    plugin_idx,      \* position of main's for-loop over docs_plugins
    plugin_id,       \* id of the product handled by the last iteration
    matched_dir,     \* value returned by find_best_plugin_dir in that iteration
    match_results,   \* main's results array: the entries pushed at line 263
    \* ---- Part II: repository synchronizer ----
    pc,              \* start | select | loop | batch | summary | exit | abort
    env,             \* what the process finds around it (git, GH_TOKEN, gh auth)
    options,         \* parseArgs() result plus options.authMethod
    products,        \* the selected products: sequence of repository names
    fs,              \* checkout directories and the repos directory
    batch_i,         \* loop variable i of processProductsInParallel
    map_j,           \* product index batch.map is about to hand to processProduct
    sync,            \* per selected product: state of its processProduct call
    results,         \* results array of processProductsInParallel
    exit_code,       \* value handed to process.exit, -1 while running
    \* ---- Part III: hooks regenerator ----
    gen_pc,          \* start | loop | finish | exit | abort
    gen_env,         \* whether wp-hooks-documentor is on the PATH (then and now)
    gen_options,     \* parseArgs() result: dryRun, product
    gen_config,      \* repos-config.json: number of products, categories
    gen_products,    \* main's local "products" after the --product filter
    gen_fs,          \* checkouts, output tree, .tmp-hooks-work
    gen_fs0,         \* the disk as the command found it
    gen_results,     \* main's results array
    gen_exit,        \* value main returns, -1 while running
    \* ---- Part IV: enrichment pass ----
    en_pc,           \* collect | write | enhance | llms | done
    en_run,          \* which run of the command this is
    en_clock,        \* what new Date() returns
    en_tree,         \* the hook markdown files under docs/, in traversal order
    en_llms,         \* static/llms.txt
    hooksData,       \* main's hooksData (result of collectAllHooks)
    en_json,         \* the JSON files under static/api as last written
    en_json_prev,    \* the JSON files as the previous run wrote them
    en_i,            \* position of enhanceAllHooks' loop over hooksData.hooks
    enhanced,        \* enhanceAllHooks' counter
    \* ---- Part IV: parseHookFile on one file ----
    pf_pc,           \* ready | parsed
    pf_file,         \* the file handed to parseHookFile
    pf_hook,         \* the value parseHookFile returned
    \* ---- Part V: command line and batch loop of the synchronizer ----
    pa_pc,           \* parse | loop | returned
    pa_args,         \* process.argv.slice(2)
    pa_options,      \* the value parseArgs returned
    pa_products,     \* the products handed to processProductsInParallel
    pa_i,            \* loop variable i of processProductsInParallel
    pa_iter,         \* number of batches awaited so far
    pa_results,      \* results array of processProductsInParallel
    \* ---- Part VI: category placement ----
    pl_pc,           \* structure | generate | index | collect | done
    pl_config,       \* repos-config.json: products and category table
    pl_disk,         \* product output directories written, path -> hook files
    pl_catdirs,      \* directories that received a _category_.json
    pl_links,        \* product links of the main index, id -> path
    pl_records,      \* hook records collectAllHooks got, per product id
    \* ---- Part VII: category index generator ----
    ci_pc,           \* find | write | done
    ci_run,          \* which run of the script this is
    ci_tree,         \* the actions/filters directories under docs/
    ci_todo,         \* directories the for-loop has not yet visited
    ci_first         \* the tree as the first run left it

match_vars == <<plugin_dirs, plugin_idx, plugin_id, matched_dir, match_results>>
sync_vars == <<pc, env, options, products, fs, batch_i, map_j, sync, results, exit_code>>
gen_vars == <<gen_pc, gen_env, gen_options, gen_config, gen_products, gen_fs, gen_fs0,
              gen_results, gen_exit>>
en_vars == <<en_pc, en_run, en_clock, en_tree, en_llms, hooksData, en_json, en_json_prev,
             en_i, enhanced>>
pf_vars == <<pf_pc, pf_file, pf_hook>>
pa_vars == <<pa_pc, pa_args, pa_options, pa_products, pa_i, pa_iter, pa_results>>
pl_vars == <<pl_pc, pl_config, pl_disk, pl_catdirs, pl_links, pl_records>>
ci_vars == <<ci_pc, ci_run, ci_tree, ci_todo, ci_first>>
vars == <<plugin_dirs, plugin_idx, plugin_id, matched_dir, match_results,
          pc, env, options, products, fs, batch_i, map_j, sync, results, exit_code,
          gen_pc, gen_env, gen_options, gen_config, gen_products, gen_fs, gen_fs0,
          gen_results, gen_exit,
          en_pc, en_run, en_clock, en_tree, en_llms, hooksData, en_json, en_json_prev,
          en_i, enhanced, pf_pc, pf_file, pf_hook,
          pa_pc, pa_args, pa_options, pa_products, pa_i, pa_iter, pa_results,
          pl_pc, pl_config, pl_disk, pl_catdirs, pl_links, pl_records,
          ci_pc, ci_run, ci_tree, ci_todo, ci_first>>

(***************************************************************************)
(* Bounds of the model.                                                    *)
(***************************************************************************)
\* longest directory listing handed to the matcher
MaxDirs == 2
\* most products repos-config.json declares
MaxProducts == 3
\* largest value given to --parallel
MaxParallel == 2

(***************************************************************************)
(* Part I.  Directory matcher                                              *)
(***************************************************************************)

\* String.prototype.toLowerCase on the characters the model uses.
LowerOf ==
    [c \in {"A", "B", "D", "G", "T", "V"} |->
        CASE c = "A" -> "a" [] c = "B" -> "b" [] c = "D" -> "d"
          [] c = "G" -> "g" [] c = "T" -> "t" [] c = "V" -> "v"]

toLowerCase(s) ==
    [k \in 1..Len(s) |-> IF s[k] \in DOMAIN LowerOf THEN LowerOf[s[k]] ELSE s[k]]

\* The character class [a-z0-9] of normalize_slug's regular expression.
IsLowerAlnum(c) ==
    c \in {"a", "b", "d", "e", "g", "i", "l", "r", "s", "t", "v", "w", "y", "z",
           "0", "1", "2", "3", "4", "5", "6", "7", "8", "9"}

\* normalize_slug: lower-case, then delete every character outside [a-z0-9].
normalize_slug(value) == SelectSeq(toLowerCase(value), IsLowerAlnum)

\* String.prototype.split('-'): the pieces between hyphens, empty pieces kept.
RECURSIVE SplitHyphen(_, _)
SplitHyphen(s, cur) ==
    IF s = <<>> THEN <<cur>>
    ELSE IF Head(s) = "-" THEN <<cur>> \o SplitHyphen(Tail(s), <<>>)
    ELSE SplitHyphen(Tail(s), Append(cur, Head(s)))

NonEmpty(t) == t # <<>>

\* tokens of score_candidate: lower-case, split on '-', filter(Boolean).
Tokens(target_id) == SelectSeq(SplitHyphen(toLowerCase(target_id), <<>>), NonEmpty)

\* String.prototype.includes
Includes(s, t) ==
    \E k \in 0..(Len(s) - Len(t)) : SubSeq(s, k + 1, k + Len(t)) = t

\* the loop of score_candidate: how many tokens occur in the lower-cased name
MatchedTokens(target_id, candidate_dir) ==
    LET tokens == Tokens(target_id)
        candidate == toLowerCase(candidate_dir)
    IN  Cardinality({k \in 1..Len(tokens) : Includes(candidate, tokens[k])})

\* weight of one matched token in score_candidate
SCORE_WEIGHT == 1000

score_candidate(target_id, candidate_dir) ==
    MatchedTokens(target_id, candidate_dir) * SCORE_WEIGHT
        + Len(toLowerCase(candidate_dir))

\* Array.prototype.sort((a, b) => b.score - a.score): stable, descending.
RECURSIVE InsertByScore(_, _)
InsertByScore(sorted, e) ==
    IF sorted = <<>> THEN <<e>>
    ELSE IF Head(sorted).score >= e.score
         THEN <<Head(sorted)>> \o InsertByScore(Tail(sorted), e)
         ELSE <<e>> \o sorted

RECURSIVE SortByScoreDesc(_)
SortByScoreDesc(scored) ==
    IF scored = <<>> THEN <<>>
    ELSE InsertByScore(SortByScoreDesc(SubSeq(scored, 1, Len(scored) - 1)),
                       scored[Len(scored)])

\* A JavaScript value that is either null or a string.
Null == [isNull |-> TRUE, dir |-> <<>>]
Str(d) == [isNull |-> FALSE, dir |-> d]

\* the token-scoring fallback of find_best_plugin_dir: scored[0]?.dir || null
BestByScore(target_id, dirs) ==
    LET scored == SortByScoreDesc(
                      [k \in 1..Len(dirs) |->
                          [dir |-> dirs[k], score |-> score_candidate(target_id, dirs[k])]])
    IN  IF scored = <<>> \/ scored[1].dir = <<>> THEN Null ELSE Str(scored[1].dir)

\* find_best_plugin_dir without its exact-match loop
ScoreOnly_find_best_plugin_dir(target_id, dirs) == BestByScore(target_id, dirs)

\* find_best_plugin_dir whose fallback gives up when no token matched
NoTokenNull_find_best_plugin_dir(target_id, dirs) ==
    LET target == normalize_slug(target_id)
        exact == {k \in 1..Len(dirs) : normalize_slug(dirs[k]) = target}
    IN  IF exact # {}
        THEN Str(dirs[CHOOSE k \in exact : \A m \in exact : k <= m])
        ELSE IF \A k \in 1..Len(dirs) : MatchedTokens(target_id, dirs[k]) = 0
             THEN Null
             ELSE BestByScore(target_id, dirs)

find_best_plugin_dir(target_id, dirs) ==
    LET target == normalize_slug(target_id)
        exact == {k \in 1..Len(dirs) : normalize_slug(dirs[k]) = target}
    IN  IF exact # {}
        THEN Str(dirs[CHOOSE k \in exact : \A m \in exact : k <= m])
        ELSE BestByScore(target_id, dirs)

(***************************************************************************)
(* Inputs of the matcher: product ids of wp-hooks-regenerate.json and      *)
(* directory names of wp-content/plugins.                                  *)
(***************************************************************************)
Name_gravityview == <<"g","r","a","v","i","t","y","v","i","e","w">>
Name_GravityView == <<"G","r","a","v","i","t","y","V","i","e","w">>
Name_datatables == <<"d","a","t","a","t","a","b","l","e","s">>
Name_DataTables == <<"D","a","t","a","T","a","b","l","e","s">>

\* a run of n filler characters, none of which occurs in a product id
Filler(n) == [k \in 1..n |-> "z"]

\* a directory name that holds the letter a and is longer than SCORE_WEIGHT
LongDirName == <<"a">> \o Filler(SCORE_WEIGHT + 2)

\* product ids, in the order of products[] (main's docs_plugins)
docs_plugins ==
    << Name_gravityview,
       Name_gravityview \o <<"-">> \o Name_datatables,
       <<"g","r","a","v","i","t","y","-","v","i","e","w">>,
       <<"a","-","b">>,
       <<"-","B","-","-","2">> >>

\* directory names the plugins directory may hold
DirNames ==
    { Name_GravityView,
      Name_GravityView \o <<"-">> \o Name_DataTables,
      Name_gravityview \o <<"_">> \o Name_datatables,
      <<"a","b">>,
      <<"B","_","2">>,
      <<"w","_","w">>,
      LongDirName }

\* readdirSync never lists a name twice
IsInjective(seq) == \A a, b \in 1..Len(seq) : seq[a] = seq[b] => a = b

DirListings ==
    UNION { {seq \in [1..n -> DirNames] : IsInjective(seq)} : n \in 0..MaxDirs }

(***************************************************************************)
(* main of the regeneration script, lines 250-265: list the directories    *)
(* once, then one loop iteration per product up to the decision whether a  *)
(* directory was found (the run of the extraction tool that follows is not *)
(* part of the matcher).  No per-plugin wp_plugin_dir override is          *)
(* configured, so effective_dir is matched_dir.                            *)
(***************************************************************************)
NoHooksData ==
    [generated |-> 0, products |-> <<>>, hooks |-> <<>>,
     stats |-> [totalHooks |-> 0, totalActions |-> 0, totalFilters |-> 0,
                productCount |-> 0]]

NoJson == [written |-> FALSE, products |-> <<>>, index |-> <<>>, full |-> NoHooksData,
           compact |-> <<>>]

EnrichParked ==
    /\ en_pc = "off"
    /\ en_run = 0
    /\ en_clock = 0
    /\ en_tree = <<>>
    /\ en_llms = [exists |-> FALSE, lines |-> <<>>, original |-> <<>>]
    /\ hooksData = NoHooksData
    /\ en_json = NoJson
    /\ en_json_prev = NoJson
    /\ en_i = 0
    /\ enhanced = 0

ParseParked ==
    /\ pf_pc = "off"
    /\ pf_file = <<>>
    /\ pf_hook = <<>>

ArgsParked ==
    /\ pa_pc = "off"
    /\ pa_args = <<>>
    /\ pa_options = <<>>
    /\ pa_products = <<>>
    /\ pa_i = 0
    /\ pa_iter = 0
    /\ pa_results = <<>>

PlaceParked ==
    /\ pl_pc = "off"
    /\ pl_config = <<>>
    /\ pl_disk = <<>>
    /\ pl_catdirs = {}
    /\ pl_links = {}
    /\ pl_records = <<>>

IndexParked ==
    /\ ci_pc = "off"
    /\ ci_run = 0
    /\ ci_tree = <<>>
    /\ ci_todo = {}
    /\ ci_first = <<>>

GenParked ==
    /\ gen_pc = "off"
    /\ gen_env = [tool_at_start |-> TRUE, tool |-> TRUE]
    /\ gen_options = [dryRun |-> FALSE, product |-> 0]
    /\ gen_config = [n |-> 0, categories |-> FALSE]
    /\ gen_products = <<>>
    /\ gen_fs = [reposDir |-> TRUE, repos |-> <<>>, outputDir |-> FALSE, out |-> <<>>,
                 category_json |-> FALSE, main_index |-> "absent", tmp_work |-> FALSE,
                 tmp_dir |-> <<>>]
    /\ gen_fs0 = gen_fs
    /\ gen_results = <<>>
    /\ gen_exit = -1

SyncParked ==
    /\ pc = "off"
    /\ env = [git |-> TRUE, gh_token |-> FALSE, gh_auth |-> FALSE]
    /\ options = [force |-> FALSE, product |-> 0, parallel |-> 1, authMethod |-> "unset"]
    /\ products = <<>>
    /\ fs = [reposDir |-> TRUE, mkdir_done |-> FALSE, dirs |-> <<>>]
    /\ batch_i = 0
    /\ map_j = 0
    /\ sync = <<>>
    /\ results = <<>>
    /\ exit_code = -1

MatchInit ==
    /\ plugin_dirs \in DirListings
    /\ plugin_idx = 0
    /\ plugin_id = <<>>
    /\ matched_dir = Null
    /\ match_results = <<>>
    /\ SyncParked
    /\ GenParked
    /\ EnrichParked
    /\ ParseParked
    /\ ArgsParked
    /\ PlaceParked
    /\ IndexParked

MatchIteration ==
    /\ pc = "off"
    /\ plugin_idx < Len(docs_plugins)
    /\ LET id == docs_plugins[plugin_idx + 1]
           found == find_best_plugin_dir(id, plugin_dirs)
       IN  /\ plugin_idx' = plugin_idx + 1
           /\ plugin_id' = id
           /\ matched_dir' = found
           /\ match_results' =
                 IF found.isNull   \* if (!effective_dir)
                 THEN Append(match_results,
                             [id |-> id, ok |-> FALSE,
                              reason |-> "No matching plugin directory found"])
                 ELSE match_results
    /\ plugin_dirs' = plugin_dirs
    /\ UNCHANGED <<sync_vars, gen_vars, en_vars, pf_vars, pa_vars, pl_vars, ci_vars>>

MatchNext == MatchIteration

MatchSpec == MatchInit /\ [][MatchNext]_vars

\* the matcher has handled a product
Matched == plugin_idx > 0

\* indices of the listing whose normalized name equals the normalized id
ExactSet(id, dirs) ==
    {k \in 1..Len(dirs) : normalize_slug(dirs[k]) = normalize_slug(id)}

\* C1: whenever some listed directory's normalized name equals the normalized
\* product id, the matcher returns a listed directory with that normalized
\* name, whatever the token scores of the other directories are.
C1_ExactMatchFirst ==
    (Matched /\ ExactSet(plugin_id, plugin_dirs) # {}) =>
        /\ ~matched_dir.isNull
        /\ \E k \in 1..Len(plugin_dirs) : plugin_dirs[k] = matched_dir.dir
        /\ normalize_slug(matched_dir.dir) = normalize_slug(plugin_id)

\* C1 witness: an exact match was returned although another listed directory
\* has a strictly higher token score.
C1_Witness ==
    /\ Matched
    /\ ExactSet(plugin_id, plugin_dirs) # {}
    /\ ~matched_dir.isNull
    /\ normalize_slug(matched_dir.dir) = normalize_slug(plugin_id)
    /\ \E k \in 1..Len(plugin_dirs) :
          score_candidate(plugin_id, plugin_dirs[k])
              > score_candidate(plugin_id, matched_dir.dir)

C3_NullIffEmpty ==
    Matched =>
        /\ matched_dir.isNull <=> (plugin_dirs = <<>>)
        /\ plugin_dirs # <<>> =>
              \E k \in 1..Len(plugin_dirs) : plugin_dirs[k] = matched_dir.dir
        /\ (\E n \in 1..Len(match_results) : match_results[n].id = plugin_id)
              <=> (plugin_dirs = <<>>)

\* C3 witness: a directory was returned although no token of the id occurs
\* in any listed directory.
C3_Witness ==
    /\ Matched
    /\ plugin_dirs # <<>>
    /\ ~matched_dir.isNull
    /\ \A k \in 1..Len(plugin_dirs) : MatchedTokens(plugin_id, plugin_dirs[k]) = 0

(***************************************************************************)
(* Part II.  Repository synchronizer                                       *)
(***************************************************************************)

\* repository names (the part of product.repo after the slash)
Repos == {"GravityView", "GravityCalendar"}

\* State of a checkout directory reposDir/<repoName>:
\*   absent      nothing at the path
\*   partial     the directory exists, .git does not
\*   incomplete  .git exists, a clone is still writing the working copy
\*   stale       a checkout whose working copy is not the tip of origin/<branch>
\*   synced      a checkout whose working copy is the tip of origin/<branch>
DirStates == {"absent", "partial", "incomplete", "stale", "synced"}

\* fs.existsSync(path.join(targetDir, '.git'))
HasGit(d) == d \in {"incomplete", "stale", "synced"}

\* fs.existsSync(targetDir)
Exists(d) == d # "absent"

\* exit statuses of a git subprocess: 0, or some non-zero status
GitStatuses == {0, 1}

\* the record kept for one selected product before processProduct ran
NotStarted ==
    [ st |-> "pending",         \* pending | cloning | fetched | done
      repoExists |-> "unset",   \* value of repoExists computed at line 233
      ops |-> <<>>,             \* rm / clone / fetch / reset, in the order started
      url |-> "none",           \* form of the clone URL handed to git clone
      clone_target |-> "none",  \* state of targetDir when git clone was spawned
      child |-> "none",         \* the git clone process: spawned | working |
                                \*   exit0 | exit1 | error, failed once reported
      outcome |-> "none",       \* action of the resolved result
      wc_after_reset |-> "none",\* state of targetDir after a reset that exited 0
      attempts |-> 0,           \* number of processProduct calls for the product
      fetch_status |-> -1,      \* exit status of git fetch, -1 while not run
      reset_status |-> -1,      \* exit status of git reset, -1 while not run
      error |-> "none" ]        \* step whose error text the result carries

\* checkGitAvailable passing although git --version failed
Skipped_checkGitAvailable(e) == TRUE

\* checkGitAvailable: returns true, throws when git --version fails
checkGitAvailable(e) == e.git

\* authentication choice that asks the CLI session before the token
GhFirst_authMethodFor(e) ==
    IF e.gh_auth THEN "gh" ELSE IF e.gh_token THEN "token" ELSE "ssh"

\* main, lines 379-389: checkGhTokenAvailable, else checkGhAvailable, else ssh
authMethodFor(e) ==
    IF e.gh_token THEN "token" ELSE IF e.gh_auth THEN "gh" ELSE "ssh"

\* getCloneUrl: the URL form for an authentication method
getCloneUrl(authMethod) ==
    IF authMethod = "token" THEN "https_x_access_token"
    ELSE IF authMethod = "gh" THEN "https_plain"
    ELSE "ssh_git_at"

\* updateRepo going on to the reset whatever the fetch returned
Any_fetchSucceeded(status) == TRUE

\* updateRepo, line 184: if (fetchProc.status !== 0) { resolve(...); return; }
fetchSucceeded(status) == status = 0

\* processProduct cloning only on --force
ForceOnly_takesClonePath(repoExists, force) == force

\* processProduct always cloning afresh
Always_takesClonePath(repoExists, force) == TRUE

\* processProduct, line 240: if (!repoExists || options.force)
takesClonePath(repoExists, force) == ~repoExists \/ force

\* processProduct, line 235: if (options.force && repoExists)
deletesFirst(repoExists, force) == force /\ repoExists

\* products.slice(i, i + parallelism) as the index range of the batch
BatchLast(i) ==
    IF i + options.parallel < Len(products) THEN i + options.parallel ELSE Len(products)

BatchIndices(i) == (i + 1)..BatchLast(i)

\* batch.map has handed every product of the batch to processProduct
MapFinished == pc = "batch" /\ map_j > BatchLast(batch_i)

\* a Promise.all that does not wait for its promises
NoWait_batchSettled(i) == TRUE

\* Promise.all(batch.map(...)) resolves: every promise of the batch resolved
batchSettled(i) == \A k \in BatchIndices(i) : sync[k].st = "done"

\* the result object a product's promise resolved with
ResultOf(k) ==
    [ idx |-> k,
      repo |-> products[k].repo,
      action |-> sync[k].outcome,
      ok |-> sync[k].outcome \in {"cloned", "updated"} ]

\* batch results that leave the failed products out
DropFailed_batchResults(i) ==
    SelectSeq([n \in 1..(BatchLast(i) - i) |-> ResultOf(i + n)], LAMBDA r : r.ok)

\* batchResults: Promise.all keeps the order of the batch
batchResults(i) == [n \in 1..(BatchLast(i) - i) |-> ResultOf(i + n)]

MatchParked ==
    /\ plugin_dirs = <<>>
    /\ plugin_idx = 0
    /\ plugin_id = <<>>
    /\ matched_dir = Null
    /\ match_results = <<>>

\* repos-config.json, the command line, the environment and the disk
SyncInit ==
    /\ MatchParked
    /\ GenParked
    /\ EnrichParked
    /\ ParseParked
    /\ ArgsParked
    /\ PlaceParked
    /\ IndexParked
    /\ pc = "start"
    /\ env \in [git : BOOLEAN, gh_token : BOOLEAN, gh_auth : BOOLEAN]
    /\ \E n \in 0..MaxProducts :
          /\ \E repo_of \in [1..n -> Repos] :
                products = [k \in 1..n |-> [id |-> k, repo |-> repo_of[k]]]
          /\ options \in [ force : BOOLEAN,
                           product : 0..(n + 1),     \* 0: no --product given
                           parallel : 1..MaxParallel,
                           authMethod : {"unset"} ]
    /\ fs \in [ reposDir : BOOLEAN,
                mkdir_done : {FALSE},
                dirs : [Repos -> {"absent", "partial", "stale"}] ]
    /\ (~fs.reposDir => \A r \in Repos : fs.dirs[r] = "absent")
    /\ batch_i = 0
    /\ map_j = 0
    /\ sync = <<>>
    /\ results = <<>>
    /\ exit_code = -1

\* main, lines 369-389: the git check, then the authentication method
CheckPrerequisites ==
    /\ pc = "start"
    /\ IF checkGitAvailable(env)
       THEN /\ options' = [options EXCEPT !.authMethod = authMethodFor(env)]
            /\ pc' = "select"
            /\ exit_code' = exit_code
       ELSE /\ pc' = "abort"
            /\ exit_code' = 1
            /\ options' = options
    /\ UNCHANGED <<env, products, fs, batch_i, map_j, sync, results>>
    /\ UNCHANGED <<match_vars, gen_vars, en_vars, pf_vars, pa_vars, pl_vars, ci_vars>>

\* main, lines 391-423: create the repos directory, apply --product
SelectProducts ==
    /\ pc = "select"
    /\ fs' = [fs EXCEPT !.reposDir = TRUE, !.mkdir_done = ~fs.reposDir]
    /\ LET exactMatch == SelectSeq(products, LAMBDA p : p.id = options.product)
       IN  IF options.product = 0
           THEN /\ products' = products
                /\ sync' = [k \in 1..Len(products) |-> NotStarted]
                /\ pc' = "loop"
                /\ exit_code' = exit_code
           ELSE IF exactMatch # <<>>
           THEN /\ products' = exactMatch
                /\ sync' = [k \in 1..Len(exactMatch) |-> NotStarted]
                /\ pc' = "loop"
                /\ exit_code' = exit_code
           ELSE /\ pc' = "abort"
                /\ exit_code' = 1
                /\ UNCHANGED <<products, sync>>
    /\ UNCHANGED <<env, options, batch_i, map_j, results>>
    /\ UNCHANGED <<match_vars, gen_vars, en_vars, pf_vars, pa_vars, pl_vars, ci_vars>>

\* processProductsInParallel, lines 253-254: the loop test and the slice
BatchBegin ==
    /\ pc = "loop"
    /\ IF batch_i < Len(products)
       THEN /\ pc' = "batch"
            /\ map_j' = batch_i + 1
       ELSE /\ pc' = "summary"
            /\ map_j' = map_j
    /\ UNCHANGED <<env, options, products, fs, batch_i, sync, results, exit_code>>
    /\ UNCHANGED <<match_vars, gen_vars, en_vars, pf_vars, pa_vars, pl_vars, ci_vars>>

\* processProduct for the next product of the batch, up to the spawn of
\* git clone (cloneRepo) or the return of git fetch (updateRepo)
ProcessProduct ==
    /\ pc = "batch"
    /\ map_j <= BatchLast(batch_i)
    /\ sync[map_j].st = "pending"
    /\ LET k == map_j
           r == products[k].repo
           repoExists == Exists(fs.dirs[r]) /\ HasGit(fs.dirs[r])
           force == options.force
           del == deletesFirst(repoExists, force)
           dirAfterDelete == IF del THEN "absent" ELSE fs.dirs[r]
           seen == [sync[k] EXCEPT !.repoExists = IF repoExists THEN "yes" ELSE "no",
                                   !.attempts = @ + 1,
                                   !.ops = IF del THEN <<"rm">> ELSE <<>>]
       IN  IF takesClonePath(repoExists, force)
           THEN /\ fs' = [fs EXCEPT !.dirs[r] = dirAfterDelete]
                /\ sync' = [sync EXCEPT ![k] =
                              [seen EXCEPT !.st = "cloning",
                                           !.ops = Append(@, "clone"),
                                           !.url = getCloneUrl(options.authMethod),
                                           !.clone_target = dirAfterDelete,
                                           !.child = "spawned"]]
                /\ map_j' = k + 1
           ELSE /\ fs' = [fs EXCEPT !.dirs[r] = dirAfterDelete]
                /\ \E status \in GitStatuses :
                      /\ status = 0 => HasGit(dirAfterDelete)
                      /\ IF ~fetchSucceeded(status)
                         THEN /\ sync' = [sync EXCEPT ![k] =
                                            [seen EXCEPT !.st = "done",
                                                         !.ops = Append(@, "fetch"),
                                                         !.fetch_status = status,
                                                         !.error = "fetch",
                                                         !.outcome = "update_failed"]]
                              /\ map_j' = k + 1
                         ELSE /\ sync' = [sync EXCEPT ![k] =
                                            [seen EXCEPT !.st = "fetched",
                                                         !.fetch_status = status,
                                                         !.ops = Append(@, "fetch")]]
                              /\ map_j' = k
    /\ UNCHANGED <<pc, env, options, products, batch_i, results, exit_code>>
    /\ UNCHANGED <<match_vars, gen_vars, en_vars, pf_vars, pa_vars, pl_vars, ci_vars>>

\* updateRepo, lines 194-210: git reset --hard origin/<branch> and the result
UpdateReset ==
    /\ pc = "batch"
    /\ map_j <= BatchLast(batch_i)
    /\ sync[map_j].st = "fetched"
    /\ LET k == map_j
           r == products[k].repo
       IN  \E status \in GitStatuses :
              /\ status = 0 => HasGit(fs.dirs[r])
              /\ fs' = IF status = 0 THEN [fs EXCEPT !.dirs[r] = "synced"] ELSE fs
              /\ sync' = [sync EXCEPT ![k] =
                            [@ EXCEPT !.st = "done",
                                      !.ops = Append(@, "reset"),
                                      !.reset_status = status,
                                      !.error = IF status = 0 THEN "none" ELSE "reset",
                                      !.outcome = IF status = 0 THEN "updated"
                                                  ELSE "update_failed",
                                      !.wc_after_reset = IF status = 0 THEN fs'.dirs[r]
                                                         ELSE "none"]]
              /\ map_j' = k + 1
    /\ UNCHANGED <<pc, env, options, products, batch_i, results, exit_code>>
    /\ UNCHANGED <<match_vars, gen_vars, en_vars, pf_vars, pa_vars, pl_vars, ci_vars>>

\* the git clone process looks at its target: it refuses a directory that
\* holds something, otherwise it creates the directory and its .git
CloneBegin(k) ==
    /\ pc \in {"batch", "loop"}
    /\ k \in DOMAIN sync
    /\ sync[k].child = "spawned"
    /\ LET r == products[k].repo
       IN  \/ /\ fs.dirs[r] \in {"absent", "partial"}   \* nothing there, or empty
              /\ fs' = [fs EXCEPT !.dirs[r] = "incomplete"]
              /\ sync' = [sync EXCEPT ![k].child = "working"]
           \/ /\ fs.dirs[r] # "absent"                  \* not an empty directory
              /\ fs' = fs
              /\ sync' = [sync EXCEPT ![k].child = "exit1"]
    /\ UNCHANGED <<pc, env, options, products, batch_i, map_j, results, exit_code>>
    /\ UNCHANGED <<match_vars, gen_vars, en_vars, pf_vars, pa_vars, pl_vars, ci_vars>>

\* the git clone process ends: the checkout is complete, or git removes
\* what it created and exits non-zero
CloneEnd(k) ==
    /\ pc \in {"batch", "loop"}
    /\ k \in DOMAIN sync
    /\ sync[k].child = "working"
    /\ LET r == products[k].repo
       IN  \/ /\ fs.dirs[r] = "incomplete"
              /\ fs' = [fs EXCEPT !.dirs[r] = "synced"]
              /\ sync' = [sync EXCEPT ![k].child = "exit0"]
           \/ /\ fs' = [fs EXCEPT !.dirs[r] =
                          IF @ = "incomplete" THEN "absent" ELSE @]
              /\ sync' = [sync EXCEPT ![k].child = "exit1"]
    /\ UNCHANGED <<pc, env, options, products, batch_i, map_j, results, exit_code>>
    /\ UNCHANGED <<match_vars, gen_vars, en_vars, pf_vars, pa_vars, pl_vars, ci_vars>>

\* the spawn itself fails: the 'error' event of the child process
SpawnError(k) ==
    /\ pc \in {"batch", "loop"}
    /\ k \in DOMAIN sync
    /\ sync[k].child = "spawned"
    /\ sync' = [sync EXCEPT ![k].child = "error"]
    /\ UNCHANGED <<pc, env, options, products, fs, batch_i, map_j, results, exit_code>>
    /\ UNCHANGED <<match_vars, gen_vars, en_vars, pf_vars, pa_vars, pl_vars, ci_vars>>

\* cloneRepo, lines 146-166: the 'close' or 'error' handler resolves the promise
OnClose(k) ==
    /\ MapFinished
    /\ k \in BatchIndices(batch_i)
    /\ sync[k].st = "cloning"
    /\ sync[k].child \in {"exit0", "exit1", "error"}
    /\ sync' = [sync EXCEPT ![k] =
                  [@ EXCEPT !.st = "done",
                            !.outcome = IF sync[k].child = "exit0" THEN "cloned"
                                        ELSE "clone_failed",
                            !.child = IF sync[k].child = "exit0" THEN "exit0"
                                      ELSE "failed"]]
    /\ UNCHANGED <<pc, env, options, products, fs, batch_i, map_j, results, exit_code>>
    /\ UNCHANGED <<match_vars, gen_vars, en_vars, pf_vars, pa_vars, pl_vars, ci_vars>>

\* processProductsInParallel, lines 255-258 and the i += parallelism of 253
BatchEnd ==
    /\ MapFinished
    /\ batchSettled(batch_i)
    /\ results' = results \o batchResults(batch_i)
    /\ batch_i' = batch_i + options.parallel
    /\ pc' = "loop"
    /\ UNCHANGED <<env, options, products, fs, map_j, sync, exit_code>>
    /\ UNCHANGED <<match_vars, gen_vars, en_vars, pf_vars, pa_vars, pl_vars, ci_vars>>

\* main, lines 434-473: the summary and the exit code
Summary ==
    /\ pc = "summary"
    /\ exit_code' = IF \E n \in 1..Len(results) : ~results[n].ok THEN 1 ELSE 0
    /\ pc' = "exit"
    /\ UNCHANGED <<env, options, products, fs, batch_i, map_j, sync, results>>
    /\ UNCHANGED <<match_vars, gen_vars, en_vars, pf_vars, pa_vars, pl_vars, ci_vars>>

SyncNext ==
    \/ CheckPrerequisites
    \/ SelectProducts
    \/ BatchBegin
    \/ ProcessProduct
    \/ UpdateReset
    \/ \E k \in 1..MaxProducts : CloneBegin(k)
    \/ \E k \in 1..MaxProducts : CloneEnd(k)
    \/ \E k \in 1..MaxProducts : SpawnError(k)
    \/ \E k \in 1..MaxProducts : OnClose(k)
    \/ BatchEnd
    \/ Summary

SyncSpec == SyncInit /\ [][SyncNext]_vars

(***************************************************************************)
(* Properties of the synchronizer                                          *)
(***************************************************************************)

\* the selected products whose processProduct call has run
Started == {k \in DOMAIN sync : sync[k].st # "pending"}

\* the product syncs in flight: started, promise not yet resolved
InFlight == {k \in DOMAIN sync : sync[k].st \notin {"pending", "done"}}

\* number of the batch (from 0) that holds the k-th selected product
BatchOf(k) == (k - 1) \div options.parallel

\* C4: a product whose checkout does not exist, synced without --force,
\* starts a clone and never a fetch or reset, and a clone that exits with
\* code 0 gives the outcome ok / cloned.
C4_ClonePath ==
    \A k \in DOMAIN sync :
        (~options.force /\ sync[k].repoExists = "no") =>
            /\ sync[k].ops = <<"clone">>
            /\ (sync[k].st = "done" /\ sync[k].child = "exit0") =>
                  sync[k].outcome = "cloned"
            /\ \A n \in 1..Len(results) :
                  (results[n].idx = k /\ sync[k].child = "exit0") =>
                      (results[n].ok /\ results[n].action = "cloned")

\* C4 witness: without --force a product with no checkout was cloned and its
\* result reported as cloned.
C4_Witness ==
    \E k \in DOMAIN sync :
        /\ ~options.force
        /\ sync[k].repoExists = "no"
        /\ sync[k].clone_target = "absent"
        /\ sync[k].child = "exit0"
        /\ \E n \in 1..Len(results) : results[n].idx = k /\ results[n].action = "cloned"

\* C5: a product whose checkout exists with its .git, synced without
\* --force, never starts a clone and never deletes the checkout; its outcome
\* is updated or update_failed, and an updated outcome means fetch and hard
\* reset both ran and the working copy is the tip of origin/<branch>.
C5_UpdatePath ==
    \A k \in DOMAIN sync :
        (~options.force /\ sync[k].repoExists = "yes") =>
            /\ sync[k].ops \in {<<"fetch">>, <<"fetch", "reset">>}
            /\ sync[k].child = "none"
            /\ sync[k].outcome \in {"none", "updated", "update_failed"}
            /\ sync[k].outcome = "updated" =>
                  (sync[k].ops = <<"fetch", "reset">> /\ sync[k].wc_after_reset = "synced")

\* C5 witness: a stale checkout was updated and reported as updated.
C5_Witness ==
    \E k \in DOMAIN sync :
        /\ ~options.force
        /\ sync[k].repoExists = "yes"
        /\ sync[k].outcome = "updated"
        /\ fs.dirs[products[k].repo] = "synced"
        /\ \E n \in 1..Len(results) : results[n].idx = k /\ results[n].action = "updated"

\* C6: whenever the clone path is taken, whatever was at the target directory
\* (a partial checkout without .git included) has been deleted before git
\* clone starts: git clone never runs against an existing directory.
C6_CleanCloneTarget ==
    \A k \in DOMAIN sync : sync[k].clone_target \in {"none", "absent"}

\* C7: at most options.parallel product syncs are in flight, and no sync of
\* a later batch has started while a sync of an earlier batch has no outcome.
C7_BoundedParallelism ==
    /\ Cardinality(InFlight) <= options.parallel
    /\ \A p, q \in DOMAIN sync :
          (BatchOf(p) < BatchOf(q) /\ sync[q].st # "pending") => sync[p].st = "done"

\* C7 witness: a full batch of two is in flight while a product of the next
\* batch waits.
C7_Witness ==
    /\ options.parallel = 2
    /\ Cardinality(InFlight) = 2
    /\ \E q \in DOMAIN sync : BatchOf(q) = 1 /\ sync[q].st = "pending"

\* the run went through processProductsInParallel and is over
RunComplete == pc \in {"summary", "exit"}

\* C8: every selected product is attempted exactly once and has exactly one
\* result, failed products are not attempted again, and the results are in
\* the order of the selected products.
C8_OneAttemptOneOutcome ==
    /\ \A k \in DOMAIN sync :
          /\ sync[k].attempts <= 1
          /\ Cardinality({n \in 1..Len(sync[k].ops) :
                             sync[k].ops[n] \in {"clone", "fetch"}}) <= 1
    /\ \A n \in 1..Len(results) :
          /\ n <= Len(products)
          /\ results[n].idx = n
          /\ results[n].action = sync[n].outcome
          /\ results[n].action # "none"
    /\ RunComplete =>
          /\ Len(results) = Len(products)
          /\ \A k \in DOMAIN sync : sync[k].attempts = 1

\* C8 witness: a finished run in which a product failed and a later product
\* succeeded.
C8_Witness ==
    /\ pc = "exit"
    /\ \E p, q \in 1..Len(results) : p < q /\ ~results[p].ok /\ results[q].ok

\* C9: without git the command exits non-zero, no processProduct call runs
\* (no clone, fetch, reset or delete) and no directory is created.
C9_MissingGitFatal ==
    ~env.git =>
        /\ pc \in {"start", "abort"}
        /\ pc = "abort" => exit_code = 1
        /\ sync = <<>>
        /\ results = <<>>
        /\ ~fs.mkdir_done

\* C9 witness: git is missing, products are configured, the repos directory
\* does not exist, and the command has exited with code 1.
C9_Witness ==
    /\ ~env.git
    /\ pc = "abort"
    /\ exit_code = 1
    /\ products # <<>>
    /\ ~fs.reposDir

\* the strategy the environment calls for: token, else CLI session, else keys
ExpectedStrategy ==
    IF env.gh_token THEN "token" ELSE IF env.gh_auth THEN "gh" ELSE "ssh"

\* the clone URL form that belongs to a strategy
ExpectedUrlForm ==
    CASE ExpectedStrategy = "token" -> "https_x_access_token"
      [] ExpectedStrategy = "gh" -> "https_plain"
      [] ExpectedStrategy = "ssh" -> "ssh_git_at"

\* C10: the strategy is token if GH_TOKEN is set, else gh if the CLI is
\* authenticated, else ssh; once chosen it stays, and every clone of the run
\* uses the URL form of that strategy.
C10_AuthOnce ==
    /\ options.authMethod \in {"unset", ExpectedStrategy}
    /\ (env.git /\ pc # "start") => options.authMethod = ExpectedStrategy
    /\ \A k \in DOMAIN sync :
          /\ sync[k].url \in {"none", ExpectedUrlForm}
          /\ sync[k].child # "none" => sync[k].url = ExpectedUrlForm

\* C10 witness: with both a token and an authenticated CLI, products of two
\* different batches were cloned with the token URL.
C10_Witness ==
    /\ env.gh_token /\ env.gh_auth
    /\ \E p, q \in DOMAIN sync :
          /\ BatchOf(p) < BatchOf(q)
          /\ sync[p].url = "https_x_access_token"
          /\ sync[q].url = "https_x_access_token"

(***************************************************************************)
(* Part III : the hooks regenerator.                                       *)
(***************************************************************************)

MaxGenProducts == 3

\* state of a product's checkout under reposDir: the repository directory is
\* missing, it exists but product.srcDir does not, or both exist
RepoStates == {"missing", "no_src", "ok"}

\* what spawnSync('wp-hooks-documentor', ['generate', ...]) can come back with:
\* result.error with code ENOENT, another result.error, a non-zero status, or
\* status 0 with output/docs/hooks, with output/hooks, or with neither
ToolOutcomes == {"ENOENT", "error", "nonzero", "docs_hooks", "alt_hooks", "none"}

\* the reason texts of generateHooksDocs
REASON ==
    [ NOT_CLONED |-> "Repository not cloned",
      NO_SRC |-> "Source directory not found",
      TOOL_NOT_FOUND |-> "wp-hooks-documentor not found",
      SPAWN_ERROR |-> "result.error.message",
      EXIT_CODE |-> "Exit code",
      NO_OUTPUT |-> "No hooks documentation was generated" ]

Passed_checkWpHooksDocumentor(e) == TRUE

\* spawnSync(..., ['--version']) has result.error exactly when the binary is
\* not on the PATH
checkWpHooksDocumentor(e) == e.tool

\* the outcomes the spawn of generateHooksDocs can have in environment e
SpawnOutcomes(e) == IF e.tool THEN ToolOutcomes \ {"ENOENT"} ELSE {"ENOENT"}

Failure(k, why) == [id |-> k, ok |-> FALSE, action |-> "none", reason |-> why]
Success(k, what) == [id |-> k, ok |-> TRUE, action |-> what, reason |-> ""]

\* generateHooksDocs reaches its try block
reachesTool(k, f, o) == f.repos[k] = "ok" /\ ~o.dryRun

\* value returned by generateHooksDocs(product k) when the tool answers t
generateHooksDocs(k, f, o, t) ==
    IF f.repos[k] = "missing" THEN Failure(k, REASON.NOT_CLONED)
    ELSE IF f.repos[k] = "no_src" THEN Failure(k, REASON.NO_SRC)
    ELSE IF o.dryRun THEN Success(k, "dry_run")
    ELSE IF t = "ENOENT" THEN Failure(k, REASON.TOOL_NOT_FOUND)
    ELSE IF t = "error" THEN Failure(k, REASON.SPAWN_ERROR)
    ELSE IF t = "nonzero" THEN Failure(k, REASON.EXIT_CODE)
    ELSE IF t = "none" THEN Failure(k, REASON.NO_OUTPUT)
    ELSE Success(k, "generated")

DeleteFirst_diskAfterHooksDocs(k, f, o, t) ==
    IF ~reachesTool(k, f, o) THEN f
    ELSE [f EXCEPT !.tmp_work = TRUE,
                   !.tmp_dir[k] = FALSE,
                   !.out[k] = IF t \in {"docs_hooks", "alt_hooks"} THEN "new" ELSE "absent"]

\* the disk after generateHooksDocs(product k): the try block creates
\* .tmp-hooks-work/<id> (and so .tmp-hooks-work), the finally block deletes
\* only .tmp-hooks-work/<id>; the product's output directory is deleted and
\* copied anew only when the tool left output
diskAfterHooksDocs(k, f, o, t) ==
    IF ~reachesTool(k, f, o) THEN f
    ELSE [f EXCEPT !.tmp_work = TRUE,
                   !.tmp_dir[k] = FALSE,
                   !.out[k] = IF t \in {"docs_hooks", "alt_hooks"} THEN "new" ELSE @]

AnyFailure_isFatal(result) == ~result.ok

\* !result.ok && result.reason.includes('wp-hooks-documentor not found')
isFatal(result) == ~result.ok /\ result.reason = REASON.TOOL_NOT_FOUND

AlwaysZero_gen_exitStatus(res) == 0

\* failed.length > 0 ? 1 : 0
gen_exitStatus(res) == IF \E n \in 1..Len(res) : ~res[n].ok THEN 1 ELSE 0

availableRepos(f) == Cardinality({k \in 1..Len(f.repos) : f.repos[k] # "missing"})

\* the disk a regeneration can start from: no output tree, an empty output
\* root, or the output of an earlier run; .tmp-hooks-work and the products'
\* work directories in it may be left over from an interrupted run
GenDisks(n) ==
    { [reposDir |-> rd, repos |-> r, outputDir |-> prior # "none",
       out |-> [k \in 1..n |-> IF prior = "full" THEN "old" ELSE "absent"],
       category_json |-> FALSE,
       main_index |-> IF prior = "full" THEN "old" ELSE "absent",
       tmp_work |-> tw, tmp_dir |-> [k \in 1..n |-> tw]] :
         rd \in BOOLEAN, r \in [1..n -> RepoStates],
         prior \in {"none", "empty", "full"}, tw \in BOOLEAN }

GenInit ==
    /\ MatchParked
    /\ SyncParked
    /\ EnrichParked
    /\ ParseParked
    /\ ArgsParked
    /\ PlaceParked
    /\ IndexParked
    /\ gen_pc = "start"
    /\ \E tool \in BOOLEAN : gen_env = [tool_at_start |-> tool, tool |-> tool]
    /\ \E n \in 1..MaxGenProducts :
          /\ gen_config \in [n : {n}, categories : BOOLEAN]
          /\ gen_options \in [dryRun : BOOLEAN, product : 0..(n + 1)]
          /\ gen_fs \in {f \in GenDisks(n) :
                           ~f.reposDir => \A k \in 1..n : f.repos[k] = "missing"}
    /\ gen_fs0 = gen_fs
    /\ gen_products = <<>>
    /\ gen_results = <<>>
    /\ gen_exit = -1

\* main up to the product loop: prerequisites, --product filter, output root,
\* category structure
GenPrerequisites ==
    /\ gen_pc = "start"
    /\ LET n == gen_config.n
           fails == \/ ~checkWpHooksDocumentor(gen_env)
                    \/ ~gen_fs.reposDir
                    \/ availableRepos(gen_fs) = 0
                    \/ gen_options.product > n     \* no product with that id
       IN  IF fails
           THEN /\ gen_pc' = "abort"
                /\ gen_exit' = 1
                /\ UNCHANGED <<gen_products, gen_fs>>
           ELSE /\ gen_pc' = "loop"
                /\ gen_products' = IF gen_options.product = 0
                                   THEN [k \in 1..n |-> k]
                                   ELSE <<gen_options.product>>
                /\ gen_fs' = [gen_fs EXCEPT
                                 !.outputDir = TRUE,
                                 !.category_json =
                                     IF ~gen_options.dryRun /\ gen_config.categories
                                     THEN TRUE ELSE @]
                /\ UNCHANGED gen_exit
    /\ UNCHANGED <<gen_env, gen_options, gen_config, gen_fs0, gen_results>>
    /\ UNCHANGED <<match_vars, sync_vars, en_vars, pf_vars, pa_vars, pl_vars, ci_vars>>

\* one iteration of main's for-of loop
GenerateProduct ==
    /\ gen_pc = "loop"
    /\ Len(gen_results) < Len(gen_products)
    /\ \E t \in SpawnOutcomes(gen_env) :
          LET k == gen_products[Len(gen_results) + 1]
              result == generateHooksDocs(k, gen_fs, gen_options, t)
          IN  /\ gen_results' = Append(gen_results, result)
              /\ gen_fs' = diskAfterHooksDocs(k, gen_fs, gen_options, t)
              /\ gen_pc' = IF isFatal(result) \/ Len(gen_results) + 1 = Len(gen_products)
                           THEN "finish" ELSE "loop"
    /\ UNCHANGED <<gen_env, gen_options, gen_config, gen_products, gen_fs0, gen_exit>>
    /\ UNCHANGED <<match_vars, sync_vars, en_vars, pf_vars, pa_vars, pl_vars, ci_vars>>

\* the binary disappears from the PATH while the loop runs
ToolRemoved ==
    /\ gen_pc = "loop"
    /\ gen_env.tool
    /\ gen_env' = [gen_env EXCEPT !.tool = FALSE]
    /\ UNCHANGED <<gen_pc, gen_options, gen_config, gen_products, gen_fs, gen_fs0,
                   gen_results, gen_exit,
          en_pc, en_run, en_clock, en_tree, en_llms, hooksData, en_json, en_json_prev,
          en_i, enhanced, pf_pc, pf_file, pf_hook>>
    /\ UNCHANGED <<match_vars, sync_vars, en_vars, pf_vars, pa_vars, pl_vars, ci_vars>>

\* main after the loop: main index, temp clean-up, summary, return
GenFinish ==
    /\ gen_pc = "finish"
    /\ gen_fs' = [gen_fs EXCEPT
                     !.main_index =
                         IF ~gen_options.dryRun
                            /\ \E n \in 1..Len(gen_results) : gen_results[n].ok
                         THEN "new" ELSE @,
                     !.tmp_work = FALSE,
                     !.tmp_dir = [k \in DOMAIN @ |-> FALSE]]
    /\ gen_exit' = gen_exitStatus(gen_results)
    /\ gen_pc' = "exit"
    /\ UNCHANGED <<gen_env, gen_options, gen_config, gen_products, gen_fs0, gen_results>>
    /\ UNCHANGED <<match_vars, sync_vars, en_vars, pf_vars, pa_vars, pl_vars, ci_vars>>

GenNext ==
    \/ GenPrerequisites
    \/ GenerateProduct
    \/ ToolRemoved
    \/ GenFinish

GenSpec == GenInit /\ [][GenNext]_vars

(***************************************************************************)
(* Properties of the regenerator.                                          *)
(***************************************************************************)

GenEnded == gen_pc \in {"exit", "abort"}

GenFailed(n) == ~gen_results[n].ok

\* C11 as stated: with the binary absent from the PATH the command ends with
\* exactly one product attempted, that product's result carrying the
\* "not found" reason, and a non-zero exit status.
C11_AbortAfterFirstAttempt ==
    (~gen_env.tool_at_start /\ GenEnded) =>
        /\ Len(gen_results) = 1
        /\ gen_results[1].reason = REASON.TOOL_NOT_FOUND
        /\ gen_exit # 0

\* C11, amended: with the binary absent from the PATH the command ends at the
\* prerequisite check, non-zero, with no product attempted, no result recorded
\* and the disk untouched; and when an invocation inside the loop finds the
\* binary gone, that product's failure carries the "not found" reason, it is
\* the last result (no later product is attempted) and the exit is non-zero.
C11_MissingToolStops ==
    /\ (~gen_env.tool_at_start /\ GenEnded) =>
          /\ gen_pc = "abort"
          /\ gen_exit = 1
          /\ gen_results = <<>>
          /\ gen_fs = gen_fs0
    /\ \A n \in 1..Len(gen_results) :
          gen_results[n].reason = REASON.TOOL_NOT_FOUND =>
              /\ GenFailed(n)
              /\ n = Len(gen_results)
              /\ gen_pc # "loop"
              /\ gen_pc = "exit" => gen_exit = 1

\* the binary is absent, everything else is in order, and the command has ended
C11_Witness ==
    /\ ~gen_env.tool_at_start
    /\ GenEnded
    /\ gen_fs0.reposDir
    /\ availableRepos(gen_fs0) = gen_config.n
    /\ gen_config.n >= 2
    /\ gen_options.product = 0
    /\ ~gen_options.dryRun

IsolatedReasons ==
    {REASON.NOT_CLONED, REASON.NO_SRC, REASON.SPAWN_ERROR, REASON.EXIT_CODE, REASON.NO_OUTPUT}

\* C12: a product that fails for a missing checkout, a missing source
\* directory, a non-zero tool exit or missing tool output gets exactly one
\* failed result with its reason, in product order, and every later product is
\* still processed; the loop ends early only behind a "not found" failure.
C12_FailureIsolation ==
    /\ Len(gen_results) <= Len(gen_products)
    /\ \A n \in 1..Len(gen_results) :
          /\ gen_results[n].id = gen_products[n]
          /\ (gen_fs0.repos[gen_products[n]] = "missing")
                => (GenFailed(n) /\ gen_results[n].reason = REASON.NOT_CLONED)
          /\ (gen_fs0.repos[gen_products[n]] = "no_src")
                => (GenFailed(n) /\ gen_results[n].reason = REASON.NO_SRC)
          /\ (GenFailed(n) /\ gen_results[n].reason \in IsolatedReasons
                 /\ n < Len(gen_products))
                => (gen_pc = "loop" \/ Len(gen_results) > n)
    /\ (gen_pc \in {"finish", "exit"} /\ Len(gen_results) < Len(gen_products))
          => gen_results[Len(gen_results)].reason = REASON.TOOL_NOT_FOUND

\* two different failures, then a product that is generated
C12_Witness ==
    /\ gen_pc = "exit"
    /\ Len(gen_results) = 3
    /\ GenFailed(1) /\ gen_results[1].reason = REASON.NO_OUTPUT
    /\ GenFailed(2) /\ gen_results[2].reason = REASON.NOT_CLONED
    /\ gen_results[3].ok /\ gen_results[3].action = "generated"
    /\ gen_fs.out[3] = "new"

\* both commands
CommandsInit == SyncInit \/ GenInit

CommandsNext == SyncNext \/ GenNext

CommandsSpec == CommandsInit /\ [][CommandsNext]_vars

\* C13: once past its precondition checks, the sync command and the regenerate
\* command exit non-zero exactly when some product's result is a failure, and
\* exit 0 when every processed product succeeded, a dry run included.
C13_ExitCode ==
    /\ pc = "exit" =>
          /\ exit_code \in {0, 1}
          /\ exit_code # 0 <=> \E n \in 1..Len(results) : ~results[n].ok
    /\ gen_pc = "exit" =>
          /\ gen_exit \in {0, 1}
          /\ gen_exit # 0 <=> \E n \in 1..Len(gen_results) : GenFailed(n)

\* a dry run over several products, none failing, has exited
C13_Witness ==
    /\ gen_pc = "exit"
    /\ gen_options.dryRun
    /\ Len(gen_results) >= 2
    /\ \A n \in 1..Len(gen_results) : gen_results[n].action = "dry_run"
    /\ gen_exit = 0

\* C14 as stated: when a dry run has exited, the disk (checkouts, output root,
\* product output, category descriptors, main index, temporary work
\* directory) is as the command found it.
C14_DryRunFrame ==
    (gen_options.dryRun /\ gen_pc = "exit") => gen_fs = gen_fs0

(***************************************************************************)
(* Part IV : the enrichment pass.                                          *)
(*                                                                         *)
(* A hook markdown file is its base name, the id and sidebar_label lines   *)
(* of its front matter, and the sequence of its sections after the front   *)
(* matter.  A section is                                                   *)
(*   Heading           "# Action: <text>" or "# Filter: <text>"            *)
(*   Paragraph         a line of text that starts none of the others       *)
(*   Parameters        "## Parameters", a table header and its rows, each  *)
(*                     row being its non-empty trimmed cells               *)
(*   UsageExample      "## Usage Example", a blank line, a php fence       *)
(*   UsageExampleProse "## Usage Example" followed by anything else        *)
(*   Since             "### Since", a blank line, "- <text>"               *)
(*   Source            "Defined in <text> at line <n>"                     *)
(* Text is a sequence of one-character strings.                            *)
(***************************************************************************)

\* a JavaScript value that is null or a value
Nothing == [isNull |-> TRUE, value |-> <<>>]
Just(v) == [isNull |-> FALSE, value |-> v]

Section(kind, text, rows) == [kind |-> kind, text |-> text, rows |-> rows]

\* String.prototype.split(/[/_]/) and friends: split on any of the separators
RECURSIVE SplitAny(_, _, _)
SplitAny(s, seps, cur) ==
    IF s = <<>> THEN <<cur>>
    ELSE IF Head(s) \in seps THEN <<cur>> \o SplitAny(Tail(s), seps, <<>>)
    ELSE SplitAny(Tail(s), seps, Append(cur, Head(s)))

\* Array.prototype.join
RECURSIVE JoinWith(_, _)
JoinWith(parts, sep) ==
    IF parts = <<>> THEN <<>>
    ELSE IF Len(parts) = 1 THEN parts[1]
    ELSE parts[1] \o sep \o JoinWith(Tail(parts), sep)

\* Array.prototype.slice(-2)
LastTwo(parts) == SubSeq(parts, IF Len(parts) > 2 THEN Len(parts) - 1 ELSE 1, Len(parts))

\* String.prototype.indexOf, 0-based, -1 when absent
IndexOf(s, t) ==
    IF Includes(s, t)
    THEN CHOOSE k \in 0..(Len(s) - Len(t)) :
            /\ SubSeq(s, k + 1, k + Len(t)) = t
            /\ \A j \in 0..(k - 1) : SubSeq(s, j + 1, j + Len(t)) # t
    ELSE -1

\* String.prototype.replace(string, string): the first occurrence only
ReplaceFirst(s, t, r) ==
    LET k == IndexOf(s, t)
    IN  IF k = -1 THEN s ELSE SubSeq(s, 1, k) \o r \o SubSeq(s, k + Len(t) + 1, Len(s))

\* String.prototype.replace(/c/g, d)
ReplaceChar(s, from, to) == [k \in 1..Len(s) |-> IF s[k] = from THEN to ELSE s[k]]

StartsWith(s, t) == Len(s) >= Len(t) /\ SubSeq(s, 1, Len(t)) = t

RECURSIVE TrimStart(_)
TrimStart(s) == IF s # <<>> /\ Head(s) = " " THEN TrimStart(Tail(s)) ELSE s

RECURSIVE TrimEnd(_)
TrimEnd(s) ==
    IF s # <<>> /\ s[Len(s)] = " " THEN TrimEnd(SubSeq(s, 1, Len(s) - 1)) ELSE s

\* String.prototype.trim
Trim(s) == TrimEnd(TrimStart(s))

ACTION_TYPE == <<"a", "c", "t", "i", "o", "n">>
FILTER_TYPE == <<"f", "i", "l", "t", "e", "r">>
HookTypes == {ACTION_TYPE, FILTER_TYPE}

\* stands for the backquote character, which a TLA+ string cannot hold
BACKQUOTE == "^"

\* the literal texts of generateDescription and parseHookFile
Txt ==
    [ Fires |-> <<"F", "i", "r", "e", "s">>,
      Filters |-> <<"F", "i", "l", "t", "e", "r", "s">>,
      before |-> <<"b", "e", "f", "o", "r", "e">>,
      after |-> <<"a", "f", "t", "e", "r">>,
      during |-> <<"d", "u", "r", "i", "n", "g">>,
      processing |-> <<" ", "p", "r", "o", "c", "e", "s", "s", "i", "n", "g", ".">>,
      the |-> <<" ", "t", "h", "e", " ">>,
      value |-> <<" ", "v", "a", "l", "u", "e", ".">>,
      Name |-> <<"N", "a", "m", "e">>,
      index |-> <<"i", "n", "d", "e", "x">>,
      docs |-> <<"/", "d", "o", "c", "s", "/">> ]

\* the shortest description parseHookFile keeps
MIN_DESCRIPTION == 10

Blank_generateDescription(hookName, hookType, params) == <<>>

generateDescription(hookName, hookType, params) ==
    LET parts == SelectSeq(SplitAny(hookName, {"/", "_"}, <<>>), NonEmpty)
        action == IF hookType = ACTION_TYPE THEN Txt.Fires ELSE Txt.Filters
        context == ReplaceChar(JoinWith(LastTwo(parts), <<" ">>), "-", " ")
    IN  IF Includes(hookName, <<"/">> \o Txt.before)
        THEN action \o <<" ">> \o Txt.before \o <<" ">>
                \o Trim(ReplaceFirst(context, Txt.before, <<>>)) \o Txt.processing
        ELSE IF Includes(hookName, <<"/">> \o Txt.after)
        THEN action \o <<" ">> \o Txt.after \o <<" ">>
                \o Trim(ReplaceFirst(context, Txt.after, <<>>)) \o Txt.processing
        ELSE IF hookType = FILTER_TYPE /\ Len(params) > 0
        THEN Txt.Filters \o Txt.the \o ReplaceChar(params[1].name, "_", " ") \o Txt.value
        ELSE action \o <<" ">> \o Txt.during \o <<" ">> \o context \o Txt.processing

\* the sections of a kind, in file order
SectionsOf(file, kind) == SelectSeq(file.sections, LAMBDA sec : sec.kind = kind)

\* content.includes('## Usage Example')
hasUsageExample(file) ==
    \E k \in 1..Len(file.sections) :
        file.sections[k].kind \in {"UsageExample", "UsageExampleProse"}

\* the first "## Usage Example" that is followed by a php fence
extractExample(file) ==
    LET ex == SectionsOf(file, "UsageExample")
    IN  IF ex = <<>> THEN Nothing ELSE Just(Trim(ex[1].text))

getId(file) == IF file.fm_id.isNull THEN file.fileName ELSE Trim(file.fm_id.value)

getActualHookName(file) ==
    LET headings == SectionsOf(file, "Heading")
    IN  IF headings # <<>> THEN Trim(headings[1].text)
        ELSE IF ~file.sidebar_label.isNull THEN Trim(file.sidebar_label.value)
        ELSE getId(file)

\* .replace(/^\$/, '')
StripDollar(s) == IF StartsWith(s, <<"$">>) THEN Tail(s) ELSE s

\* the rows of the first Parameters table that have three cells or more
parseParameters(file) ==
    LET tables == SectionsOf(file, "Parameters")
        rows == IF tables = <<>> THEN <<>>
                ELSE SelectSeq(tables[1].rows, LAMBDA cells : Len(cells) >= 3)
    IN  [k \in 1..Len(rows) |->
            [name |-> Trim(StripDollar(rows[k][1])),
             type |-> SelectSeq(rows[k][2], LAMBDA c : c # BACKQUOTE),
             description |-> rows[k][3]]]

\* the paragraph right under a heading that opens the file, else ''
rawDescription(file) ==
    IF /\ Len(file.sections) >= 2
       /\ file.sections[1].kind = "Heading"
       /\ file.sections[2].kind = "Paragraph"
    THEN Trim(file.sections[2].text)
    ELSE <<>>

needsGeneratedDescription(description) ==
    \/ description = <<>>
    \/ StartsWith(description, <<"|">>)
    \/ StartsWith(description, <<BACKQUOTE>>)
    \/ description = Txt.Name
    \/ Len(description) < MIN_DESCRIPTION

IsIndexFile(file) == file.fileName = Txt.index

\* parseHookFile for a file that is not the index page
parseHookFile(file, productId, hookType) ==
    LET hookName == getActualHookName(file)
        params == parseParameters(file)
        raw == rawDescription(file)
        since == SectionsOf(file, "Since")
        source == SectionsOf(file, "Source")
    IN  [id |-> getId(file),
         name |-> hookName,
         type |-> hookType,
         product |-> productId,
         description |-> IF needsGeneratedDescription(raw)
                         THEN generateDescription(hookName, hookType, params)
                         ELSE raw,
         parameters |-> params,
         example |-> extractExample(file),
         since |-> IF since = <<>> THEN Nothing ELSE Just(Trim(since[1].text)),
         source |-> IF source = <<>> THEN Nothing ELSE Just(source[1].text),
         url |-> Txt.docs \o productId \o <<"/">> \o hookType \o <<"s", "/">>
                    \o getId(file) \o <<"/">>]

\* ---- the files parseHookFile is tried on ----

\* names, hook names, paragraphs, table rows and code the files are made of
Sample ==
    [ Name_a |-> <<"a">>,
      Name_b |-> <<"b">>,
      Hook_save |-> <<"g", "k", "/", "s", "a", "v", "e", "_", "r", "o", "w">>,
      Hook_before |-> <<"g", "k", "/", "b", "e", "f", "o", "r", "e", "-", "x">>,
      Hook_after |-> <<"g", "k", "/", "a", "f", "t", "e", "r">>,
      Hook_blank |-> <<" ">>,
      Text_long |-> <<"R", "u", "n", "s", " ", "o", "n", " ", "s", "a", "v", "e", ".">>,
      Text_short |-> <<"S", "h", "o", "r", "t", ".">>,
      Text_table |-> <<" ", "|", " ", "N", "a", "m", "e", " ", "|", " ", "T", "y", "p", "e", " ", "|">>,
      Row_value |-> << <<"$", "r", "o", "w", "_", "i", "d">>, <<BACKQUOTE, "i", "n", "t", BACKQUOTE>>, <<"I", "d">> >>,
      Row_short |-> << <<"$", "x">>, <<"i", "n", "t">> >>,
      Code_hand |-> <<"a", "d", "d", "_", "a", "c", "t", "i", "o", "n", "(", ")", ";">> ]

\* either nothing or one section
Optional(kind, texts) == {<<>>} \cup {<<Section(kind, t, <<>>)>> : t \in texts}

ParseFiles ==
    { [fileName |-> Sample.Name_a, fm_id |-> id, sidebar_label |-> label,
       sections |-> h \o d \o p \o e \o s \o src] :
         id \in {Nothing, Just(Sample.Name_b)},
         label \in {Nothing, Just(Sample.Hook_save)},
         h \in Optional("Heading", {Sample.Hook_save, Sample.Hook_before, Sample.Hook_after, Sample.Hook_blank}),
         d \in Optional("Paragraph", {Sample.Text_long, Sample.Text_short, Txt.Name, Sample.Text_table}),
         p \in {<<>>} \cup {<<Section("Parameters", <<>>, rows)>> :
                               rows \in {<<>>, <<Sample.Row_value>>, <<Sample.Row_short, Sample.Row_value>>}},
         e \in Optional("UsageExample", {Sample.Code_hand}) \cup Optional("UsageExampleProse", {<<>>}),
         s \in Optional("Since", {<<"2", ".", "0">>}),
         src \in Optional("Source", {<<"a", ".", "p", "h", "p">>}) }

ParseInit ==
    /\ MatchParked
    /\ SyncParked
    /\ GenParked
    /\ EnrichParked
    /\ ArgsParked
    /\ PlaceParked
    /\ IndexParked
    /\ pf_pc = "ready"
    /\ \E file \in ParseFiles, hookType \in HookTypes :
          pf_file = [file |-> file, productId |-> <<"p", "1">>, hookType |-> hookType]
    /\ pf_hook = <<>>

ParseHook ==
    /\ pf_pc = "ready"
    /\ pf_hook' = parseHookFile(pf_file.file, pf_file.productId, pf_file.hookType)
    /\ pf_pc' = "parsed"
    /\ UNCHANGED pf_file
    /\ UNCHANGED <<match_vars, sync_vars, gen_vars, en_vars, pa_vars, pl_vars, ci_vars>>

ParseNext == ParseHook

ParseSpec == ParseInit /\ [][ParseNext]_vars

HookFields ==
    {"id", "name", "type", "product", "description", "parameters", "example", "since",
     "source", "url"}

MaxHookFiles == 2
MaxRuns == 2

ACTIONS_DIR == ACTION_TYPE \o <<"s">>
FILTERS_DIR == FILTER_TYPE \o <<"s">>

\* config.products, in order
ConfigProducts == << <<"p", "1">>, <<"p", "2">> >>

\* the hookType collectAllHooks passes for the files of a subdirectory
Action_hookTypeOfDir(dir) == ACTION_TYPE

hookTypeOfDir(dir) == IF dir = ACTIONS_DIR THEN ACTION_TYPE ELSE FILTER_TYPE

Txt_add == <<"a", "d", "d", "_">>

\* the code of the generated example: add_action / add_filter on the hook
\* name, with the parameter names as the handler's arguments
generateActionExample(hook) ==
    Txt_add \o ACTION_TYPE \o <<"(">> \o hook.name \o <<")", "(">>
        \o JoinWith([k \in 1..Len(hook.parameters) |-> <<"$">> \o hook.parameters[k].name],
                    <<",">>) \o <<")">>

generateFilterExample(hook) ==
    Txt_add \o FILTER_TYPE \o <<"(">> \o hook.name \o <<")", "(">>
        \o JoinWith([k \in 1..Len(hook.parameters) |-> <<"$">> \o hook.parameters[k].name],
                    <<",">>) \o <<")">>

Never_alreadyEnhanced(file) == FALSE

\* if (content.includes('## Usage Example')) return false
alreadyEnhanced(file) == hasUsageExample(file)

\* position of the first "### Since" section, 0 when there is none
SincePosition(file) ==
    IF SectionsOf(file, "Since") = <<>> THEN 0
    ELSE CHOOSE k \in 1..Len(file.sections) :
            /\ file.sections[k].kind = "Since"
            /\ \A j \in 1..(k - 1) : file.sections[j].kind # "Since"

\* the file enhanceHookFile leaves on disk
enhanceHookFile(file, hookData) ==
    IF alreadyEnhanced(file) THEN file
    ELSE LET exampleCode == IF hookData.type = ACTION_TYPE
                            THEN generateActionExample(hookData)
                            ELSE generateFilterExample(hookData)
             example == Section("UsageExample", exampleCode, <<>>)
             insertPoint == SincePosition(file)
         IN  [file EXCEPT !.sections =
                 IF insertPoint = 0 THEN Append(@, example)
                 ELSE SubSeq(@, 1, insertPoint - 1) \o <<example>>
                          \o SubSeq(@, insertPoint, Len(@))]

\* index in the tree of docs/<product>/<type>s/<id>.md, 0 when it does not exist
hookFileOf(tree, hook) ==
    LET found == {k \in 1..Len(tree) :
                     /\ tree[k].product = hook.product
                     /\ tree[k].dir = hook.type \o <<"s">>
                     /\ tree[k].fileName = hook.id}
    IN  IF found = {} THEN 0 ELSE CHOOSE k \in found : TRUE

\* the files of the tree parseHookFile returns a record for
HookFilesOf(tree) == SelectSeq(tree, LAMBDA f : ~IsIndexFile(f))

CountOf(hooks, productId, hookType) ==
    Cardinality({k \in 1..Len(hooks) :
                    hooks[k].product = productId /\ hooks[k].type = hookType})

NamesOf(hooks, productId, hookType) ==
    LET sel == SelectSeq(hooks, LAMBDA h : h.product = productId /\ h.type = hookType)
    IN  [k \in 1..Len(sel) |-> sel[k].name]

collectAllHooks(tree, now) ==
    LET files == HookFilesOf(tree)
        hooks == [k \in 1..Len(files) |->
                     parseHookFile(files[k], files[k].product, hookTypeOfDir(files[k].dir))]
        withHooks == SelectSeq(ConfigProducts,
                               LAMBDA id : \E k \in 1..Len(hooks) : hooks[k].product = id)
        totalActions == Cardinality({k \in 1..Len(hooks) : hooks[k].type = ACTION_TYPE})
        totalFilters == Cardinality({k \in 1..Len(hooks) : hooks[k].type = FILTER_TYPE})
    IN  [generated |-> now,
         products |-> [k \in 1..Len(withHooks) |->
                          [id |-> withHooks[k],
                           actions |-> NamesOf(hooks, withHooks[k], ACTION_TYPE),
                           filters |-> NamesOf(hooks, withHooks[k], FILTER_TYPE)]],
         hooks |-> hooks,
         stats |-> [totalHooks |-> totalActions + totalFilters,
                    totalActions |-> totalActions,
                    totalFilters |-> totalFilters,
                    productCount |-> Len(withHooks)]]

\* static/api/hooks/<product>.json, one per entry of hooksData.products
productData(data) ==
    [k \in 1..Len(data.products) |->
        LET productHooks == SelectSeq(data.hooks,
                                      LAMBDA h : h.product = data.products[k].id)
        IN  [generated |-> data.generated,
             product |-> data.products[k],
             hooks |-> productHooks,
             stats |-> [total |-> Len(productHooks),
                        actions |-> CountOf(productHooks, data.products[k].id, ACTION_TYPE),
                        filters |-> CountOf(productHooks, data.products[k].id, FILTER_TYPE)]]]

ActionsOnly_indexData(data) ==
    [generated |-> data.generated,
     stats |-> data.stats,
     products |-> [k \in 1..Len(data.products) |->
                      [id |-> data.products[k].id,
                       actions |-> Len(data.products[k].actions),
                       filters |-> Len(data.products[k].filters),
                       total |-> Len(data.products[k].actions)]]]

\* static/api/hooks/index.json
indexData(data) ==
    [generated |-> data.generated,
     stats |-> data.stats,
     products |-> [k \in 1..Len(data.products) |->
                      [id |-> data.products[k].id,
                       actions |-> Len(data.products[k].actions),
                       filters |-> Len(data.products[k].filters),
                       total |-> Len(data.products[k].actions)
                                    + Len(data.products[k].filters)]]]

DropNoExample_compactHooks(data) ==
    LET kept == SelectSeq(data.hooks, LAMBDA h : ~h.example.isNull)
    IN  [generated |-> data.generated,
         hooks |-> [k \in 1..Len(kept) |->
                       [n |-> kept[k].name, t |-> Head(kept[k].type),
                        p |-> kept[k].product, d |-> kept[k].description,
                        u |-> kept[k].url]]]

\* static/api/hooks-compact.json
compactHooks(data) ==
    [generated |-> data.generated,
     hooks |-> [k \in 1..Len(data.hooks) |->
                   [n |-> data.hooks[k].name,
                    t |-> Head(data.hooks[k].type),     \* h.type[0]
                    p |-> data.hooks[k].product,
                    d |-> data.hooks[k].description,
                    u |-> data.hooks[k].url]]]

\* llms.txt is the sequence of its lines, each ended by a newline.  A line
\* is the title, a "## ..." heading, the "## Statistics (Auto-Updated)"
\* heading, the block of statistics bullets (which carries the counts and the
\* date), other text, or an empty line.
LlmsLine(kind, text, data, now) ==
    [kind |-> kind, text |-> text, stats |-> data.stats, updated |-> now]

\* the statsSection template: "\n## Statistics (Auto-Updated)\n\n- ...\n"
statsSection(data, now) ==
    <<LlmsLine("blank", "", NoHooksData, 0),
      LlmsLine("stats_heading", "## Statistics (Auto-Updated)", NoHooksData, 0),
      LlmsLine("blank", "", NoHooksData, 0),
      LlmsLine("stats_body", "- **Total Hooks:** ...", data, now)>>

AppendOnly_updateLlms(llms, data, now) ==
    IF ~llms.exists THEN llms
    ELSE [llms EXCEPT !.lines =
             @ \o <<LlmsLine("blank", "", NoHooksData, 0)>> \o statsSection(data, now)]

\* llms.txt after main's step 5.  The regular expression matches from the
\* statistics heading up to the newline in front of the next line that starts
\* with "##", or to the end of the file; that newline stays behind the
\* replacement and, after the template's own final newline, is an empty line.
updateLlms(llms, data, now) ==
    LET lines == llms.lines
        headings == {k \in 1..Len(lines) : lines[k].kind = "stats_heading"}
    IN  IF ~llms.exists THEN llms
        ELSE IF headings # {}
        THEN LET i == CHOOSE k \in headings : \A h \in headings : k <= h
                 ends == {j \in i..(Len(lines) - 1) :
                             lines[j + 1].kind \in {"heading", "stats_heading"}}
             IN  [llms EXCEPT !.lines =
                     IF ends = {}
                     THEN SubSeq(lines, 1, i - 1) \o statsSection(data, now)
                     ELSE LET j == CHOOSE k \in ends : \A e \in ends : k <= e
                          IN  SubSeq(lines, 1, i - 1) \o statsSection(data, now)
                                 \o <<LlmsLine("blank", "", NoHooksData, 0)>>
                                 \o SubSeq(lines, j + 1, Len(lines))]
        ELSE [llms EXCEPT !.lines =
                 lines \o <<LlmsLine("blank", "", NoHooksData, 0)>>
                       \o statsSection(data, now)]

\* ---- the trees a run can start from ----

Body_full ==
    <<Section("Heading", Sample.Hook_save, <<>>), Section("Paragraph", Sample.Text_long, <<>>),
      Section("Parameters", <<>>, <<Sample.Row_value>>), Section("Since", <<"2", ".", "0">>, <<>>),
      Section("Source", <<"a", ".", "p", "h", "p">>, <<>>)>>

Body_bare == <<Section("Heading", Sample.Hook_after, <<>>)>>

Body_hand ==
    <<Section("Heading", Sample.Hook_before, <<>>), Section("UsageExample", Sample.Code_hand, <<>>),
      Section("Since", <<"2", ".", "0">>, <<>>)>>

Bodies == <<Body_full, Body_bare, Body_hand>>

\* every place a file can be in, in traversal order
TreeSlots ==
    LET dirs == <<ACTIONS_DIR, FILTERS_DIR>>
        names == <<Sample.Name_a, Sample.Name_b, Txt.index>>
    IN  [n \in 1..(Len(ConfigProducts) * 6) |->
            [product |-> ConfigProducts[((n - 1) \div 6) + 1],
             dir |-> dirs[(((n - 1) % 6) \div 3) + 1],
             fileName |-> names[((n - 1) % 3) + 1]]]

\* what a file in a slot can hold: a.md with or without a front-matter id
\* naming b, b.md, and the index page
SlotFiles(slot) ==
    IF slot.fileName = Txt.index
    THEN {[product |-> slot.product, dir |-> slot.dir, fileName |-> slot.fileName,
           fm_id |-> Nothing, sidebar_label |-> Nothing, sections |-> <<>>]}
    ELSE {[product |-> slot.product, dir |-> slot.dir, fileName |-> slot.fileName,
           fm_id |-> id, sidebar_label |-> Nothing, sections |-> Bodies[b]] :
              id \in IF slot.fileName = Sample.Name_a THEN {Nothing, Just(Sample.Name_b)} ELSE {Nothing},
              b \in 1..Len(Bodies)}

RECURSIVE SortedSeq(_)
SortedSeq(S) ==
    IF S = {} THEN <<>>
    ELSE LET m == CHOOSE x \in S : \A y \in S : x <= y
         IN  <<m>> \o SortedSeq(S \ {m})

Trees ==
    UNION { LET order == SortedSeq(S)
            IN  {[k \in 1..Len(order) |-> pick[order[k]]] :
                    pick \in {f \in [S -> UNION {SlotFiles(TreeSlots[n]) : n \in S}] :
                                 \A n \in S : f[n] \in SlotFiles(TreeSlots[n])}} :
            S \in {T \in SUBSET (1..Len(TreeSlots)) : Cardinality(T) <= MaxHookFiles} }

\* llms.txt as the first run finds it: absent, without a statistics section,
\* or with one (of an earlier run) that another section follows; the
\* "original" field keeps that content
LlmsFiles ==
    LET title == LlmsLine("title", "# GravityKit", NoHooksData, 0)
        text == LlmsLine("text", "Hooks reference.", NoHooksData, 0)
        blank == LlmsLine("blank", "", NoHooksData, 0)
        links == LlmsLine("heading", "## Links", NoHooksData, 0)
        plain == <<title, text>>
        full == <<title, text>> \o statsSection(NoHooksData, 0) \o <<blank, links, text>>
    IN  {[exists |-> FALSE, lines |-> <<>>, original |-> <<>>],
         [exists |-> TRUE, lines |-> plain, original |-> plain],
         [exists |-> TRUE, lines |-> full, original |-> full]}

EnrichInit ==
    /\ MatchParked
    /\ SyncParked
    /\ GenParked
    /\ ParseParked
    /\ ArgsParked
    /\ PlaceParked
    /\ IndexParked
    /\ en_pc = "collect"
    /\ en_run = 1
    /\ en_clock = 1
    /\ en_tree \in Trees
    /\ en_llms \in LlmsFiles
    /\ hooksData = NoHooksData
    /\ en_json = NoJson
    /\ en_json_prev = NoJson
    /\ en_i = 0
    /\ enhanced = 0

\* main, step 1
EnrichCollect ==
    /\ en_pc = "collect"
    /\ hooksData' = collectAllHooks(en_tree, en_clock)
    /\ en_pc' = "write"
    /\ UNCHANGED <<en_run, en_clock, en_tree, en_llms, en_json, en_json_prev, en_i, enhanced>>
    /\ UNCHANGED <<match_vars, sync_vars, gen_vars, pf_vars, pa_vars, pl_vars, ci_vars>>

\* main, steps 2 to 5: the four kinds of JSON file
EnrichWriteJson ==
    /\ en_pc = "write"
    /\ en_json' = [written |-> TRUE,
                   products |-> productData(hooksData),
                   index |-> indexData(hooksData),
                   full |-> hooksData,
                   compact |-> compactHooks(hooksData)]
    /\ en_i' = 0
    /\ enhanced' = 0
    /\ en_pc' = "enhance"
    /\ UNCHANGED <<en_run, en_clock, en_tree, en_llms, hooksData, en_json_prev>>
    /\ UNCHANGED <<match_vars, sync_vars, gen_vars, pf_vars, pa_vars, pl_vars, ci_vars>>

\* one iteration of enhanceAllHooks' loop
EnhanceHook ==
    /\ en_pc = "enhance"
    /\ en_i < Len(hooksData.hooks)
    /\ LET hook == hooksData.hooks[en_i + 1]
           at == hookFileOf(en_tree, hook)
       IN  IF at = 0
           THEN UNCHANGED <<en_tree, enhanced>>
           ELSE /\ en_tree' = [en_tree EXCEPT ![at] = enhanceHookFile(@, hook)]
                /\ enhanced' = IF alreadyEnhanced(en_tree[at]) THEN enhanced
                               ELSE enhanced + 1
    /\ en_i' = en_i + 1
    /\ UNCHANGED <<en_pc, en_run, en_clock, en_llms, hooksData, en_json, en_json_prev>>
    /\ UNCHANGED <<match_vars, sync_vars, gen_vars, pf_vars, pa_vars, pl_vars, ci_vars>>

\* enhanceAllHooks returns; main updates llms.txt and returns 0
EnrichLlms ==
    /\ en_pc = "enhance"
    /\ en_i = Len(hooksData.hooks)
    /\ en_llms' = updateLlms(en_llms, hooksData, en_clock)
    /\ en_pc' = "done"
    /\ UNCHANGED <<en_run, en_clock, en_tree, hooksData, en_json, en_json_prev, en_i, enhanced>>
    /\ UNCHANGED <<match_vars, sync_vars, gen_vars, pf_vars, pa_vars, pl_vars, ci_vars>>

\* the command is run again on the tree it left; the clock may have moved
EnrichRerun ==
    /\ en_pc = "done"
    /\ en_run < MaxRuns
    /\ en_run' = en_run + 1
    /\ en_clock' \in {en_clock, en_clock + 1}
    /\ en_json_prev' = en_json
    /\ en_pc' = "collect"
    /\ UNCHANGED <<en_tree, en_llms, hooksData, en_json, en_i, enhanced>>
    /\ UNCHANGED <<match_vars, sync_vars, gen_vars, pf_vars, pa_vars, pl_vars, ci_vars>>

EnrichNext ==
    \/ EnrichCollect
    \/ EnrichWriteJson
    \/ EnhanceHook
    \/ EnrichLlms
    \/ EnrichRerun

EnrichSpec == EnrichInit /\ [][EnrichNext]_vars

(***************************************************************************)
(* Properties of the enrichment pass.                                      *)
(***************************************************************************)

UsageExampleCount(file) ==
    Cardinality({k \in 1..Len(file.sections) :
                    file.sections[k].kind \in {"UsageExample", "UsageExampleProse"}})

JsonWritten == en_json.written /\ en_pc \in {"enhance", "done"}

\* C15: no step rewrites a hook file that already holds a usage-example
\* section; a second (or later) run on the tree the first run left adds no
\* usage example; no file ever holds more than one usage-example section.
C15_ExampleIdempotence ==
    [][ /\ Len(en_tree') = Len(en_tree)
        /\ \A k \in 1..Len(en_tree) :
              hasUsageExample(en_tree[k]) => en_tree'[k] = en_tree[k]
        /\ (en_run' >= 2 /\ en_pc' \in {"enhance", "done"}) => enhanced' = 0
        /\ \A k \in 1..Len(en_tree') : UsageExampleCount(en_tree'[k]) <= 1 ]_vars

\* the second run has ended on a tree in which the first run generated an
\* example and another file already had its own
C15_Witness ==
    /\ en_run = 2
    /\ en_pc = "done"
    /\ enhanced = 0
    /\ \E k \in 1..Len(en_tree) :
          /\ hasUsageExample(en_tree[k])
          /\ SectionsOf(en_tree[k], "UsageExample")[1].text # Sample.Code_hand
    /\ \E k \in 1..Len(en_tree) :
          /\ hasUsageExample(en_tree[k])
          /\ SectionsOf(en_tree[k], "UsageExample")[1].text = Sample.Code_hand

\* C16 as stated: when the second of two successive runs has written its JSON
\* files with the same generation timestamp as the first, the per-product,
\* index, full and compact files equal those the first run wrote.
C16_JsonIdempotence ==
    (en_run = 2 /\ JsonWritten /\ en_json.full.generated = en_json_prev.full.generated)
        => en_json = en_json_prev

\* C17: every hook record has type action or filter, action for a file of an
\* actions directory and filter for a file of a filters directory, and the
\* compact entry's letter is a or f accordingly.
C17_HookKind ==
    LET files == HookFilesOf(en_tree)
    IN  /\ \A k \in 1..Len(hooksData.hooks) :
              /\ hooksData.hooks[k].type \in HookTypes
              /\ files[k].dir = ACTIONS_DIR => hooksData.hooks[k].type = ACTION_TYPE
              /\ files[k].dir = FILTERS_DIR => hooksData.hooks[k].type = FILTER_TYPE
        /\ JsonWritten =>
              \A k \in 1..Len(en_json.compact.hooks) :
                  /\ en_json.compact.hooks[k].t \in {"a", "f"}
                  /\ en_json.compact.hooks[k].t = "a" <=> files[k].dir = ACTIONS_DIR

\* the JSON files hold an action record and a filter record
C17_Witness ==
    /\ JsonWritten
    /\ \E k \in 1..Len(en_json.full.hooks) : en_json.full.hooks[k].type = ACTION_TYPE
    /\ \E k \in 1..Len(en_json.full.hooks) : en_json.full.hooks[k].type = FILTER_TYPE

\* C18 as stated: no two hook records of the same product and type have the
\* same id.
C18_UniqueIds ==
    \A i, j \in 1..Len(hooksData.hooks) :
        (/\ i # j
         /\ hooksData.hooks[i].product = hooksData.hooks[j].product
         /\ hooksData.hooks[i].type = hooksData.hooks[j].type)
            => hooksData.hooks[i].id # hooksData.hooks[j].id

\* C19: the compact file has one entry per entry of the full hooks array, in
\* the same order, each the (name, type letter, product, description, url) of
\* its counterpart.
C19_CompactProjection ==
    JsonWritten =>
        /\ Len(en_json.compact.hooks) = Len(en_json.full.hooks)
        /\ \A k \in 1..Len(en_json.full.hooks) :
              en_json.compact.hooks[k] =
                  [n |-> en_json.full.hooks[k].name,
                   t |-> en_json.full.hooks[k].type[1],
                   p |-> en_json.full.hooks[k].product,
                   d |-> en_json.full.hooks[k].description,
                   u |-> en_json.full.hooks[k].url]

\* two records with different names, one of them without an example
C19_Witness ==
    /\ JsonWritten
    /\ Len(en_json.compact.hooks) = 2
    /\ en_json.compact.hooks[1].n # en_json.compact.hooks[2].n
    /\ en_json.full.hooks[1].example.isNull
    /\ ~en_json.full.hooks[2].example.isNull

\* C23 as stated: when an enrichment run has ended, every file of the tree
\* that yielded a hook record holds a usage-example section, whether or not
\* its front-matter id equals its file name.
C23_ExampleEverywhere ==
    en_pc = "done" =>
        \A k \in 1..Len(en_tree) :
            ~IsIndexFile(en_tree[k]) => hasUsageExample(en_tree[k])

RECURSIVE SumOfTotals(_)
SumOfTotals(entries) ==
    IF entries = <<>> THEN 0 ELSE Head(entries).total + SumOfTotals(Tail(entries))

HooksOfProduct(id) ==
    Cardinality({k \in 1..Len(hooksData.hooks) : hooksData.hooks[k].product = id})

\* C28: totalHooks = totalActions + totalFilters = number of hook records;
\* productCount = number of entries of the products map; a product is in the
\* map exactly when it has a hook record; in index.json each product's total
\* is the number of its hook records and the totals add up to totalHooks.
C28_StatsConsistency ==
    /\ hooksData.stats.totalHooks
          = hooksData.stats.totalActions + hooksData.stats.totalFilters
    /\ hooksData.stats.totalHooks = Len(hooksData.hooks)
    /\ hooksData.stats.productCount = Len(hooksData.products)
    /\ \A i, j \in 1..Len(hooksData.products) :
          hooksData.products[i].id = hooksData.products[j].id => i = j
    /\ \A n \in 1..Len(ConfigProducts) :
          (\E k \in 1..Len(hooksData.products) :
              hooksData.products[k].id = ConfigProducts[n])
            <=> HooksOfProduct(ConfigProducts[n]) > 0
    /\ JsonWritten =>
          /\ SumOfTotals(en_json.index.products) = hooksData.stats.totalHooks
          /\ \A k \in 1..Len(en_json.index.products) :
                en_json.index.products[k].total
                    = HooksOfProduct(en_json.index.products[k].id)

\* two products, one with an action record and one with a filter record
C28_Witness ==
    /\ JsonWritten
    /\ Len(en_json.index.products) = 2
    /\ hooksData.stats.totalActions = 1
    /\ hooksData.stats.totalFilters = 1
    /\ en_json.index.products[1].total = 1

\* the lines of the statistics section that starts at line i: the heading and
\* what follows it up to the next "##" heading
StatsRegion(lines, i) ==
    {k \in i..Len(lines) :
        \A j \in (i + 1)..k : lines[j].kind \notin {"heading", "stats_heading"}}

\* the text outside every statistics section: the lines that are not empty,
\* in order
OtherLines(lines) ==
    LET inside == UNION {StatsRegion(lines, i) :
                            i \in {k \in 1..Len(lines) : lines[k].kind = "stats_heading"}}
        keep == SortedSeq({k \in (1..Len(lines)) \ inside : lines[k].kind # "blank"})
    IN  [k \in 1..Len(keep) |-> lines[keep[k]]]

AttemptsOf(k) == {n \in 1..Len(gen_results) : gen_results[n].id = k}

\* the call for product k went past the dry-run return into the try block
EnteredTry(result) ==
    /\ result.action # "dry_run"
    /\ result.reason \notin {REASON.NOT_CLONED, REASON.NO_SRC}

OpAt(k, op) ==
    LET at == {n \in 1..Len(sync[k].ops) : sync[k].ops[n] = op}
    IN  IF at = {} THEN 0 ELSE CHOOSE n \in at : \A m \in at : n <= m

\* C26: a reset was started only right after a fetch that exited 0; the
\* outcome "updated" stands on a fetch and a reset that both exited 0; a
\* failed fetch or reset gives "update_failed" with that step's error, and the
\* failed step is the last git command started for the product.
C26_UpdateOrdering ==
    \A k \in DOMAIN sync :
        LET s == sync[k]
        IN  /\ OpAt(k, "reset") # 0 =>
                  /\ OpAt(k, "fetch") = OpAt(k, "reset") - 1
                  /\ s.fetch_status = 0
            /\ s.outcome = "updated" => s.fetch_status = 0 /\ s.reset_status = 0
            /\ s.fetch_status > 0 =>
                  /\ s.outcome = "update_failed" /\ s.error = "fetch"
                  /\ s.ops[Len(s.ops)] = "fetch"
            /\ s.reset_status > 0 =>
                  /\ s.outcome = "update_failed" /\ s.error = "reset"
                  /\ s.ops[Len(s.ops)] = "reset"
            /\ s.outcome = "update_failed" => s.fetch_status > 0 \/ s.reset_status > 0

\* a run in which one product's fetch failed and another product's reset
\* failed after its fetch succeeded
C26_Witness ==
    /\ pc = "exit"
    /\ \E k \in DOMAIN sync : sync[k].fetch_status > 0
    /\ \E k \in DOMAIN sync : sync[k].fetch_status = 0 /\ sync[k].reset_status > 0
    /\ \E k \in DOMAIN sync : sync[k].outcome = "updated"

\* C30: no two product syncs in flight work on the same checkout directory.
C30_OneWriterPerCheckout ==
    \A j \in InFlight : \A k \in InFlight :
        j # k => products[j].repo # products[k].repo

(***************************************************************************)
(* Part V: the synchronizer's command line (src/unnamed/part_006).         *)
(* parseArgs is computed on the argument strings; the batch loop of        *)
(* processProductsInParallel runs with the parallelism parseArgs returned. *)
(* Every processProduct call resolves with one result (Part II), so a      *)
(* batch contributes one result per product Array.prototype.slice put in   *)
(* it.                                                                     *)
(***************************************************************************)
\* largest number of command line arguments
MaxArgs == 2
\* largest number of batches the loop is followed for
MaxBatches == 5

DigitChars == <<"0", "1", "2", "3", "4", "5", "6", "7", "8", "9">>
IsDigit(c) == \E d \in 1..10 : DigitChars[d] = c
DigitValue(c) == (CHOOSE d \in 1..10 : DigitChars[d] = c) - 1

RECURSIVE leadingDigits(_, _)
leadingDigits(str, acc) ==
    IF str = <<>> \/ ~IsDigit(Head(str)) THEN acc
    ELSE leadingDigits(Tail(str), acc * 10 + DigitValue(Head(str)))

\* parseInt(str, 10): leading blanks, an optional sign, the leading digits;
\* NaN (Nothing) when no digit follows
parseInt(str) ==
    LET t == TrimStart(str)
        negative == t # <<>> /\ Head(t) = "-"
        body == IF t # <<>> /\ Head(t) \in {"-", "+"} THEN Tail(t) ELSE t
    IN  IF body = <<>> \/ ~IsDigit(Head(body)) THEN Nothing
        ELSE Just(IF negative THEN 0 - leadingDigits(body, 0)
                  ELSE leadingDigits(body, 0))

\* the option names parseArgs knows
Arg ==
    [force |-> <<"-", "-", "f", "o", "r", "c", "e">>, f |-> <<"-", "f">>,
     product |-> <<"-", "-", "p", "r", "o", "d", "u", "c", "t">>, p |-> <<"-", "p">>,
     parallel |-> <<"-", "-", "p", "a", "r", "a", "l", "l", "e", "l">>, j |-> <<"-", "j">>,
     help |-> <<"-", "-", "h", "e", "l", "p">>, h |-> <<"-", "h">>,
     list |-> <<"-", "-", "l", "i", "s", "t">>, l |-> <<"-", "l">>]

DefaultOptions ==
    [force |-> FALSE, product |-> Nothing, parallel |-> 4, help |-> FALSE, list |-> FALSE]

\* parseArgs from position i on; args[++i] past the end is undefined
RECURSIVE parseArgsFrom(_, _, _)
parseArgsFrom(args, i, o) ==
    IF i > Len(args) THEN o
    ELSE LET arg == args[i]
             next == IF i + 1 <= Len(args) THEN Just(args[i + 1]) ELSE Nothing
             n == IF next.isNull THEN Nothing ELSE parseInt(next.value)
         IN  IF arg \in {Arg.force, Arg.f}
             THEN parseArgsFrom(args, i + 1, [o EXCEPT !.force = TRUE])
             ELSE IF arg \in {Arg.product, Arg.p}
             THEN parseArgsFrom(args, i + 2, [o EXCEPT !.product = next])
             ELSE IF arg \in {Arg.parallel, Arg.j}
             THEN parseArgsFrom(args, i + 2,
                      [o EXCEPT !.parallel = IF n.isNull \/ n.value = 0 THEN 4
                                             ELSE n.value])
             ELSE IF arg \in {Arg.help, Arg.h}
             THEN parseArgsFrom(args, i + 1, [o EXCEPT !.help = TRUE])
             ELSE IF arg \in {Arg.list, Arg.l}
             THEN parseArgsFrom(args, i + 1, [o EXCEPT !.list = TRUE])
             ELSE parseArgsFrom(args, i + 1, o)

parseArgs(args) == parseArgsFrom(args, 1, DefaultOptions)

\* Array.prototype.slice(start, end)
slice(seq, start, end) ==
    LET n == Len(seq)
        from == IF start < 0 THEN (IF n + start < 0 THEN 0 ELSE n + start)
                ELSE (IF start > n THEN n ELSE start)
        to == IF end < 0 THEN (IF n + end < 0 THEN 0 ELSE n + end)
              ELSE (IF end > n THEN n ELSE end)
    IN  IF from >= to THEN <<>> ELSE SubSeq(seq, from + 1, to)

\* the words a command line is made of here
ArgWords ==
    {Arg.force, Arg.parallel, Arg.j,
     <<"2">>, <<"1", "0">>, <<"0">>, <<"-", "1">>, <<"-", "2">>, <<"x">>}

ArgsInit ==
    /\ MatchParked
    /\ SyncParked
    /\ GenParked
    /\ EnrichParked
    /\ ParseParked
    /\ PlaceParked
    /\ IndexParked
    /\ pa_pc = "parse"
    /\ \E n \in 0..MaxArgs : pa_args \in [1..n -> ArgWords]
    /\ pa_options = DefaultOptions
    /\ \E n \in 0..MaxProducts : pa_products = [k \in 1..n |-> k]
    /\ pa_i = 0
    /\ pa_iter = 0
    /\ pa_results = <<>>

\* main, line 293 and 427-432: parseArgs, then processProductsInParallel
ArgsParse ==
    /\ pa_pc = "parse"
    /\ pa_options' = parseArgs(pa_args)
    /\ pa_pc' = "loop"
    /\ UNCHANGED <<pa_args, pa_products, pa_i, pa_iter, pa_results>>
    /\ UNCHANGED <<match_vars, sync_vars, gen_vars, en_vars, pf_vars, pl_vars, ci_vars>>

\* one turn of the for-loop: slice, await the batch, push, i += parallelism
ArgsBatch ==
    /\ pa_pc = "loop"
    /\ pa_i < Len(pa_products)
    /\ pa_iter < MaxBatches
    /\ pa_results' = pa_results \o slice(pa_products, pa_i, pa_i + pa_options.parallel)
    /\ pa_i' = pa_i + pa_options.parallel
    /\ pa_iter' = pa_iter + 1
    /\ UNCHANGED <<pa_pc, pa_args, pa_options, pa_products>>
    /\ UNCHANGED <<match_vars, sync_vars, gen_vars, en_vars, pf_vars, pl_vars, ci_vars>>

\* the loop condition fails: return results
ArgsReturn ==
    /\ pa_pc = "loop"
    /\ ~(pa_i < Len(pa_products))
    /\ pa_pc' = "returned"
    /\ UNCHANGED <<pa_args, pa_options, pa_products, pa_i, pa_iter, pa_results>>
    /\ UNCHANGED <<match_vars, sync_vars, gen_vars, en_vars, pf_vars, pl_vars, ci_vars>>

ArgsNext ==
    \/ ArgsParse
    \/ ArgsBatch
    \/ ArgsReturn

ArgsSpec == ArgsInit /\ [][ArgsNext]_vars

\* C29: the batch loop returns after at most as many batches as there are
\* products, and what it returns holds exactly one result per product.
C29_LoopTerminates ==
    /\ pa_iter <= Len(pa_products)
    /\ pa_pc = "returned" => pa_results = pa_products

(***************************************************************************)
(* Part VI: category placement.  Paths are sequences of path segments;     *)
(* path.join is their concatenation.  The regenerator (part_007) writes    *)
(* the category descriptors, a product's documentation and the links of    *)
(* the main index under the output root; collectAllHooks                   *)
(* (enhance-for-llms.mjs) reads each product's directory under docs/, the  *)
(* sample configuration's outputDir.                                       *)
(***************************************************************************)
\* largest number of configured products
MaxPlaceProducts == 2

\* config.outputDir and the docs directory of collectAllHooks
OutputRoot == <<<<"d", "o", "c", "s">>>>

CategoryIds == {<<"g", "v">>, <<"e", "x", "t">>}
ProductIds == <<<<"c", "a", "l">>, <<"m", "a", "p", "s">>, <<"k", "b">>>>

\* category tables: any of the two ids, each top-level or under the other
CategoryTables ==
    UNION { {t \in [S -> [parent : {Nothing} \cup {Just(c) : c \in CategoryIds}]] :
                \A c \in S : t[c].parent # Just(c)} :
            S \in SUBSET CategoryIds }

\* what products declare: no category, one of the ids, or an id no table has
DeclaredCategories == {Nothing} \cup {Just(c) : c \in CategoryIds \cup {<<"t", "l">>}}

\* what wp-hooks-documentor leaves for a product, with the index pages
\* generateActionsIndex and generateFiltersIndex add
GeneratedDocs ==
    [actions |-> {Sample.Name_a, Txt.index},
     filters |-> {Sample.Name_b, Txt.index}]

\* categories[product.category], undefined as Nothing
categoryOf(product, categories) ==
    IF product.category.isNull \/ categories.isNull THEN Nothing
    ELSE IF product.category.value \notin DOMAIN categories.value THEN Nothing
    ELSE Just(categories.value[product.category.value])

\* getProductOutputDir ignoring the category's parent
NoParent_getProductOutputDir(outputBaseDir, product, categories) ==
    IF categoryOf(product, categories).isNull
    THEN outputBaseDir \o <<product.id>>
    ELSE outputBaseDir \o <<product.category.value, product.id>>

getProductOutputDir(outputBaseDir, product, categories) ==
    LET category == categoryOf(product, categories)
    IN  IF category.isNull
        THEN outputBaseDir \o <<product.id>>
        ELSE IF ~category.value.parent.isNull
        THEN outputBaseDir \o <<category.value.parent.value, product.category.value, product.id>>
        ELSE outputBaseDir \o <<product.category.value, product.id>>

\* generateCategoryStructure: the directories that get a _category_.json
generateCategoryStructure(outputBaseDir, categories) ==
    IF categories.isNull THEN {}
    ELSE { IF categories.value[id].parent.isNull
           THEN outputBaseDir \o <<id>>
           ELSE outputBaseDir \o <<categories.value[id].parent.value, id>> :
             id \in DOMAIN categories.value }

\* generateMainIndex: the product links of the list, relative to the index
mainIndexLinks(config, successfulProducts) ==
    IF ~config.categories.isNull
    THEN LET table == config.categories.value
             topCategories == {c \in DOMAIN table : table[c].parent.isNull}
             productCat(p) == categoryOf(p, config.categories)
             listed(c) == {p \in successfulProducts :
                             \/ p.category = Just(c)
                             \/ (~productCat(p).isNull /\ productCat(p).value.parent = Just(c))}
         IN  UNION { { [id |-> p.id,
                        path |-> IF ~productCat(p).isNull /\ ~productCat(p).value.parent.isNull
                                 THEN <<productCat(p).value.parent.value, p.category.value, p.id>>
                                 ELSE <<p.category.value, p.id>>] : p \in listed(c) } :
                     c \in topCategories }
    ELSE { [id |-> p.id, path |-> <<p.id>>] : p \in successfulProducts }

\* collectAllHooks, lines 706-740: the files parseHookFile is called on for a
\* product, found in docs/<id>/actions and docs/<id>/filters
collectedFiles(disk, product) ==
    LET productDir == OutputRoot \o <<product.id>>
        there == {n \in 1..Len(disk) : disk[n].ok /\ disk[n].path = productDir}
    IN  IF there = {} THEN {}
        ELSE LET docs == disk[CHOOSE n \in there : TRUE].files
             IN  {[dir |-> ACTIONS_DIR, fileName |-> f] : f \in docs.actions}
                 \cup {[dir |-> FILTERS_DIR, fileName |-> f] : f \in docs.filters}

PlaceInit ==
    /\ MatchParked
    /\ SyncParked
    /\ GenParked
    /\ EnrichParked
    /\ ParseParked
    /\ ArgsParked
    /\ IndexParked
    /\ pl_pc = "structure"
    /\ \E n \in 1..MaxPlaceProducts :
          \E cat \in [1..n -> DeclaredCategories], table \in {Nothing} \cup {Just(t) : t \in CategoryTables} :
              pl_config = [products |-> [k \in 1..n |-> [id |-> ProductIds[k], category |-> cat[k]]],
                           categories |-> table]
    /\ pl_disk = <<>>
    /\ pl_catdirs = {}
    /\ pl_links = {}
    /\ pl_records = <<>>

\* main: generateCategoryStructure(outputDir, config.categories)
PlaceStructure ==
    /\ pl_pc = "structure"
    /\ pl_catdirs' = generateCategoryStructure(OutputRoot, pl_config.categories)
    /\ pl_pc' = "generate"
    /\ UNCHANGED <<pl_config, pl_disk, pl_links, pl_records>>
    /\ UNCHANGED <<match_vars, sync_vars, gen_vars, en_vars, pf_vars, pa_vars, ci_vars>>

\* generateHooksDocs for the next product: it fails and writes nothing, or it
\* copies the generated documentation to finalOutputDir
PlaceGenerate ==
    /\ pl_pc = "generate"
    /\ Len(pl_disk) < Len(pl_config.products)
    /\ LET product == pl_config.products[Len(pl_disk) + 1]
           finalOutputDir == getProductOutputDir(OutputRoot, product, pl_config.categories)
       IN  \E ok \in BOOLEAN :
              pl_disk' = Append(pl_disk,
                            [id |-> product.id, ok |-> ok, path |-> finalOutputDir,
                             files |-> IF ok THEN GeneratedDocs
                                       ELSE [actions |-> {}, filters |-> {}]])
    /\ UNCHANGED <<pl_pc, pl_config, pl_catdirs, pl_links, pl_records>>
    /\ UNCHANGED <<match_vars, sync_vars, gen_vars, en_vars, pf_vars, pa_vars, ci_vars>>

\* generateMainIndex over the products that were generated
PlaceMainIndex ==
    /\ pl_pc = "generate"
    /\ Len(pl_disk) = Len(pl_config.products)
    /\ pl_links' = mainIndexLinks(pl_config,
                      {pl_config.products[k] : k \in {n \in 1..Len(pl_disk) : pl_disk[n].ok}})
    /\ pl_pc' = "collect"
    /\ UNCHANGED <<pl_config, pl_disk, pl_catdirs, pl_records>>
    /\ UNCHANGED <<match_vars, sync_vars, gen_vars, en_vars, pf_vars, pa_vars, ci_vars>>

\* the enrichment pass after the regenerator: one record per file that
\* parseHookFile does not drop as an index page
PlaceCollect ==
    /\ pl_pc = "collect"
    /\ pl_records' = [k \in 1..Len(pl_config.products) |->
                         {f \in collectedFiles(pl_disk, pl_config.products[k]) :
                             ~IsIndexFile(f)}]
    /\ pl_pc' = "done"
    /\ UNCHANGED <<pl_config, pl_disk, pl_catdirs, pl_links>>
    /\ UNCHANGED <<match_vars, sync_vars, gen_vars, en_vars, pf_vars, pa_vars, ci_vars>>

PlaceNext ==
    \/ PlaceStructure
    \/ PlaceGenerate
    \/ PlaceMainIndex
    \/ PlaceCollect

PlaceSpec == PlaceInit /\ [][PlaceNext]_vars

\* the k-th configured product and what the configuration says of its category
PlacedProduct(k) == pl_config.products[k]
InTable(k) ==
    /\ ~pl_config.categories.isNull
    /\ ~PlacedProduct(k).category.isNull
    /\ PlacedProduct(k).category.value \in DOMAIN pl_config.categories.value
ParentOf(k) == pl_config.categories.value[PlacedProduct(k).category.value].parent

C22_EnrichmentCoverage ==
    pl_pc = "done" =>
        \A k \in 1..Len(pl_disk) :
            pl_disk[k].ok =>
                pl_records[k] =
                    {[dir |-> ACTIONS_DIR, fileName |-> f] :
                        f \in pl_disk[k].files.actions \ {Txt.index}}
                    \cup {[dir |-> FILTERS_DIR, fileName |-> f] :
                        f \in pl_disk[k].files.filters \ {Txt.index}}

(***************************************************************************)
(* Part VII: the category index generator                                  *)
(* (src/scripts/generate-category-indexes.mjs).  The tree under docs/ is a *)
(* function from the paths of its actions/filters directories to their     *)
(* files and their index page; the for-loop of the script visits the       *)
(* directories found in the order readdirSync gave them, any order here.   *)
(***************************************************************************)
\* largest number of actions/filters directories under docs/
MaxIndexDirs == 2

FileName ==
    [index_md |-> <<"i", "n", "d", "e", "x", ".", "m", "d">>,
     a_md |-> <<"a", ".", "m", "d">>,
     b_md |-> <<"b", ".", "m", "d">>,
     notes_txt |-> <<"n", "o", "t", "e", "s", ".", "t", "x", "t">>,
     md |-> <<".", "m", "d">>]

Segment ==
    [docs |-> <<"d", "o", "c", "s">>,
     gv |-> <<"g", "v">>,
     gv_maps |-> <<"g", "v", "-", "m", "a", "p", "s">>,
     ext |-> <<"e", "x", "t">>]

UpperOf ==
    [c \in {"a", "e", "f", "g", "m"} |->
        CASE c = "a" -> "A" [] c = "e" -> "E" [] c = "f" -> "F"
          [] c = "g" -> "G" [] c = "m" -> "M"]

\* word.charAt(0).toUpperCase() + word.slice(1)
Capitalize(word) ==
    IF word = <<>> THEN <<>>
    ELSE <<IF word[1] \in DOMAIN UpperOf THEN UpperOf[word[1]] ELSE word[1]>> \o Tail(word)

EndsWith(s, t) == Len(s) >= Len(t) /\ SubSeq(s, Len(s) - Len(t) + 1, Len(s)) = t

IsCategoryName(name) == name \in {ACTIONS_DIR, FILTERS_DIR}

\* findCategoryDirs(dir): every sub-directory named actions or filters,
\* without looking inside one
RECURSIVE findCategoryDirs(_, _)
findCategoryDirs(tree, dir) ==
    LET below == {d \in DOMAIN tree : Len(d) > Len(dir) /\ SubSeq(d, 1, Len(dir)) = dir}
        entries == {SubSeq(d, 1, Len(dir) + 1) : d \in below}
    IN  UNION { IF IsCategoryName(fullPath[Len(fullPath)]) THEN {fullPath}
                ELSE findCategoryDirs(tree, fullPath) : fullPath \in entries }

\* fs.readdirSync(dir): the files of the directory, index.md when it exists
readdirSync(tree, dir) ==
    tree[dir].files \cup (IF tree[dir].index.isNull THEN {} ELSE {FileName.index_md})

\* countHooks counting the index page as well
WithIndex_countHooks(tree, dir) ==
    Cardinality({f \in readdirSync(tree, dir) : EndsWith(f, FileName.md)})

countHooks(tree, dir) ==
    Cardinality({f \in readdirSync(tree, dir) :
                    EndsWith(f, FileName.md) /\ f # FileName.index_md})

\* getProductName: the path segment after docs, in title case
getProductName(dirPath) ==
    LET at == {k \in 1..Len(dirPath) : dirPath[k] = Segment.docs}
        docsIndex == IF at = {} THEN 0 ELSE CHOOSE k \in at : \A j \in at : k <= j
    IN  IF docsIndex # 0 /\ docsIndex + 1 <= Len(dirPath) /\ dirPath[docsIndex + 1] # <<>>
        THEN LET words == SplitHyphen(dirPath[docsIndex + 1], <<>>)
             IN  JoinWith([k \in 1..Len(words) |-> Capitalize(words[k])], <<" ">>)
        ELSE <<"U", "n", "k", "n", "o", "w", "n", " ", "P", "r", "o", "d", "u", "c", "t">>

\* generateIndexContent: the parts of the page that are not fixed text
generateIndexContent(tree, dirPath, category) ==
    LET isActions == category = ACTIONS_DIR
    IN  [sidebar_position |-> IF isActions THEN 2 ELSE 3,
         title |-> Capitalize(category),
         productName |-> getProductName(dirPath),
         hookTypePlural |-> IF isActions THEN ACTIONS_DIR ELSE FILTERS_DIR,
         description |-> IF isActions THEN "Actions allow you to run custom code"
                         ELSE "Filters allow you to modify data",
         hookCount |-> countHooks(tree, dirPath)]

\* the trees under docs/: up to MaxIndexDirs category directories, the last
\* of the paths lying inside an actions directory; each with some files and
\* with or without an index page that some earlier tool wrote
IndexTrees ==
    LET StalePage ==
            [sidebar_position |-> 2, title |-> <<>>, productName |-> <<>>,
             hookTypePlural |-> <<>>, description |-> "", hookCount |-> 0]
        CategoryDirPaths ==
            {<<Segment.docs, Segment.gv, ACTIONS_DIR>>,
             <<Segment.docs, Segment.gv, FILTERS_DIR>>,
             <<Segment.docs, Segment.gv_maps, ACTIONS_DIR>>,
             <<Segment.docs, Segment.ext, Segment.gv_maps, FILTERS_DIR>>,
             <<Segment.docs, Segment.gv, ACTIONS_DIR, FILTERS_DIR>>}
        DirContents ==
            [files : {{}, {FileName.a_md}, {FileName.a_md, FileName.b_md},
                      {FileName.a_md, FileName.notes_txt}},
             index : {Nothing, Just(StalePage)}]
    IN  UNION { [S -> DirContents] :
                S \in {T \in SUBSET CategoryDirPaths :
                         /\ Cardinality(T) <= MaxIndexDirs
                         /\ \A d \in T : Len(d) = 4 /\ IsCategoryName(d[3]) =>
                                            SubSeq(d, 1, 3) \in T} }

IndexInit ==
    /\ MatchParked
    /\ SyncParked
    /\ GenParked
    /\ EnrichParked
    /\ ParseParked
    /\ ArgsParked
    /\ PlaceParked
    /\ ci_pc = "find"
    /\ ci_run = 1
    /\ ci_tree \in IndexTrees
    /\ ci_todo = {}
    /\ ci_first = ci_tree

\* const categoryDirs = findCategoryDirs(docsDir)
IndexFind ==
    /\ ci_pc = "find"
    /\ ci_todo' = findCategoryDirs(ci_tree, <<Segment.docs>>)
    /\ ci_pc' = "write"
    /\ UNCHANGED <<ci_run, ci_tree, ci_first>>
    /\ UNCHANGED <<match_vars, sync_vars, gen_vars, en_vars, pf_vars, pa_vars, pl_vars>>

\* one turn of the for-loop: generateIndexContent, writeFileSync
IndexWrite ==
    /\ ci_pc = "write"
    /\ \E dir \in ci_todo :
          /\ ci_tree' = [ci_tree EXCEPT ![dir].index =
                            Just(generateIndexContent(ci_tree, dir, dir[Len(dir)]))]
          /\ ci_todo' = ci_todo \ {dir}
    /\ UNCHANGED <<ci_pc, ci_run, ci_first>>
    /\ UNCHANGED <<match_vars, sync_vars, gen_vars, en_vars, pf_vars, pa_vars, pl_vars>>

\* the script ends; it may be run again
IndexEnd ==
    /\ ci_pc = "write"
    /\ ci_todo = {}
    /\ ci_first' = IF ci_run = 1 THEN ci_tree ELSE ci_first
    /\ IF ci_run < MaxRuns
       THEN ci_run' = ci_run + 1 /\ ci_pc' = "find"
       ELSE ci_run' = ci_run /\ ci_pc' = "done"
    /\ UNCHANGED <<ci_tree, ci_todo>>
    /\ UNCHANGED <<match_vars, sync_vars, gen_vars, en_vars, pf_vars, pa_vars, pl_vars>>

IndexNext ==
    \/ IndexFind
    \/ IndexWrite
    \/ IndexEnd

IndexSpec == IndexInit /\ [][IndexNext]_vars

\* the markdown files of a directory other than its index page
HookPagesOf(dir) ==
    {f \in ci_tree[dir].files : EndsWith(f, FileName.md) /\ f # FileName.index_md}

\* C21: from the end of the first run on every index page stays the page the
\* first run wrote, whatever the order of the visits, and the count on the
\* page of every visited directory is the number of its markdown files other
\* than the index page.
C21_IndexIdempotence ==
    /\ (ci_run >= 2 \/ ci_pc = "done") =>
          \A dir \in DOMAIN ci_tree : ci_tree[dir].index = ci_first[dir].index
    /\ \A dir \in findCategoryDirs(ci_tree, <<Segment.docs>>) :
          (ci_run >= 2 \/ (ci_pc = "write" /\ dir \notin ci_todo)) =>
              /\ ~ci_tree[dir].index.isNull
              /\ ci_tree[dir].index.value.hookCount = Cardinality(HookPagesOf(dir))

\* the second run has rewritten the pages of two directories, one with two
\* hook pages and one with a hook page and a file that is no markdown
C21_Witness ==
    /\ ci_pc = "done"
    /\ ci_run = 2
    /\ \E d1, d2 \in findCategoryDirs(ci_tree, <<Segment.docs>>) :
          /\ d1 # d2
          /\ ci_tree[d1].index.value.hookCount = 2
          /\ ci_tree[d2].index.value.hookCount = 1
          /\ ci_tree[d2].files = {FileName.a_md, FileName.notes_txt}

=============================================================================
